---- MODULE Spec2Model ----
(***************************************************************************)
(* The SP&L demo data generator and its validator, in three parts:         *)
(*   Spec     the network graph builder                                    *)
(*            (src/demo_data/generate_demo_data.py,                        *)
(*            generate_network_nodes_and_edges);                           *)
(*   GeoSpec  the table generators that place substations, feeders and     *)
(*            transformers on the street grid, and the points of the       *)
(*            network nodes built from them;                               *)
(*   ValSpec  the validator's checks on the feeders, customers, network    *)
(*            and weather tables (src/validate_demo_data.py, main).        *)
(*                                                                         *)
(* Units.  The source works on Python floats rounded to a fixed number of  *)
(* decimals; the model keeps the same quantities as integers:              *)
(*   latitude / longitude   micro-degrees        (round(.., 6))            *)
(*   length_miles           thousandths of a mile (round(.., 3))           *)
(*   mile markers, feeder length   hundredths of a mile (round(.., 2))     *)
(*   length_ft              tenths of a foot      (round(.., 1))           *)
(*   impedances             1e-4 ohm per mile     (round(.., 4))           *)
(*   voltages               hundredths of a kV                             *)
(* round() is round-half-to-even on the exact value; where the exact value *)
(* is a decimal tie, the binary float of the source may land one unit in   *)
(* the last place away.                                                    *)
(***************************************************************************)
EXTENDS Integers, Sequences, FiniteSets, TLC

\* ------------------------------------------------------------------ bounds
MaxFeeders == 2
MaxXfmr == 17
MaxOffers == 4
NumSeeds == 2

\* ------------------------------------------------------- program constants
MILE_LAT == 14490
MILE_LON == 17370
TIE_THRESHOLD_TENTHS == 15
JITTER_MAX == 50
NoFeeder == 0

\* ------------------------------------------------------------ arithmetic
\* round(a / b) for b > 0, half to even
RoundDiv(a, b) ==
    LET q == a \div b
        r == a - q * b
    IN  IF 2 * r < b THEN q
        ELSE IF 2 * r > b THEN q + 1
        ELSE IF q % 2 = 0 THEN q ELSE q + 1

Max(a, b) == IF a >= b THEN a ELSE b
Min(a, b) == IF a <= b THEN a ELSE b
Abs(a) == IF a >= 0 THEN a ELSE 0 - a

RECURSIVE SqrtSearch(_, _, _)
SqrtSearch(x, lo, hi) ==
    IF lo >= hi THEN lo
    ELSE LET mid == (lo + hi + 1) \div 2
         IN  IF mid * mid <= x THEN SqrtSearch(x, mid, hi)
             ELSE SqrtSearch(x, lo, mid - 1)

\* floor(math.sqrt(x)) for 0 <= x < 2^31
ISqrt(x) == SqrtSearch(x, 0, 46340)

\* round(math.sqrt(x)) for x >= 0
RoundSqrt(x) ==
    LET s == ISqrt(x)
    IN  IF x - s * s > s THEN s + 1 ELSE s

\* ------------------------------------------------ pseudo-random source
\* The process-wide generator of the random module: a state, advanced by one
\* step per draw (a 16-bit linear congruential generator stands for the
\* Mersenne Twister).
Lcg(s) == (s * 25173 + 13849) % 65536

\* random.seed(seed): the generator state a run starts from
random_seed(seed) == (seed * 7919 + 42) % 65536

RECURSIVE RngAt(_, _)
\* the generator state after k draws from state s
RngAt(s, k) == IF k = 0 THEN s ELSE RngAt(Lcg(s), k - 1)

\* random.random() > p/100
RandomAbove(s, p) == (s \div 4) % 100 >= p

\* random.uniform(0.9, 1.1), in percent
Uniform90_110(s) == 90 + ((s \div 16) % 21)

\* random.uniform(-0.00005, 0.00005), in micro-degrees
UniformJitter(s) == ((s \div 8) % (2 * JITTER_MAX + 1)) - JITTER_MAX

\* random.choice(seq)
random_choice(seq, s) == seq[((s \div 64) % Len(seq)) + 1]

\* ------------------------------------------------------------ node ids
\* mutant: every substation bus is given the id of the first substation
SubNodeIdShared(sub_id) == <<"SUB", 1, 0>>

SubNodeId(sub_id) == <<"SUB", sub_id, 0>>
HeadId(fdr_id) == <<"HEAD", fdr_id, 0>>
TailId(fdr_id) == <<"TAIL", fdr_id, 0>>
XfmrNodeId(xfmr_id) == <<"XFMR", xfmr_id, 0>>
\* mutant: the junction id does not carry the running junction number
JctIdNoCount(fdr_id, k) == <<"JCT", fdr_id, 0>>
JctId(fdr_id, k) == <<"JCT", fdr_id, k>>
\* mutant: the fuse id does not carry the transformer id
FuseIdShared(xfmr_id) == <<"FUSE", 0, 0>>
FuseId(xfmr_id) == <<"FUSE", xfmr_id, 0>>
TieId(n) == <<"TIE", n, 0>>

\* ------------------------------------------------------ conductor tables
ConductorNames == {"336 ACSR", "477 ACSR", "795 ACSR", "1/0 AL", "4/0 AL", "397.5 AAC"}

conductor_specs ==
    [c \in ConductorNames |->
        CASE c = "336 ACSR"  -> <<306, 444, 400>>
          [] c = "477 ACSR"  -> <<216, 420, 530>>
          [] c = "795 ACSR"  -> <<130, 390, 700>>
          [] c = "1/0 AL"    -> <<592, 477, 230>>
          [] c = "4/0 AL"    -> <<297, 434, 340>>
          [] c = "397.5 AAC" -> <<240, 430, 480>>]

\* mutant: the fallback is the lightest trunk conductor instead
DefaultSpecLight == <<592, 477, 230>>

DefaultSpec == <<250, 430, 400>>

\* conductor_specs.get(name, (0.25, 0.43, 400))
ConductorGet(name) ==
    IF name \in DOMAIN conductor_specs THEN conductor_specs[name] ELSE DefaultSpec

lateral_conductors == <<"1/0 AL", "4/0 AL", "#2 ACSR", "#4 CU">>

lateral_specs ==
    [c \in {"1/0 AL", "4/0 AL", "#2 ACSR", "#4 CU"} |->
        CASE c = "1/0 AL"  -> <<592, 477, 230>>
          [] c = "4/0 AL"  -> <<297, 434, 340>>
          [] c = "#2 ACSR" -> <<895, 502, 150>>
          [] c = "#4 CU"   -> <<1503, 511, 100>>]

\* round(base * random.uniform(0.9, 1.1), 4)
JitteredOhm(base, s) == RoundDiv(base * Uniform90_110(s), 10)

\* round((r + x) * 0.5, 4)
Z0(r, x) == RoundDiv((r + x) * 10, 2)

\* round((r + x) * 0.5 * random.uniform(0.9, 1.1), 4)
JitteredZ0(r, x, s) == RoundDiv((r + x) * Uniform90_110(s), 20)

\* ---------------------------------------------------------------- state
VARIABLES
    substations,   \* input table (rows of generate_substations)
    feeders,       \* input table (rows of generate_feeders)
    transformers,  \* input table (rows of generate_transformers)
    seed,          \* the argument of random.seed
    rng,           \* state of the process-wide random generator
    nodes,         \* list of node rows
    node_set,      \* set of node ids already added
    edges,         \* list of edge rows
    edge_num,      \* running edge counter
    pc,            \* position in generate_network_nodes_and_edges
    i,             \* index of the node loops and of the per-feeder edge loop
    idx,           \* enumerate index in xfmrs_sorted
    xfmrs_sorted,  \* the current feeder's transformers, by distance from head
    trunk_nodes,   \* the current feeder's junctions (tap_id, lat, lon, mile)
    tie_i, tie_j,  \* indices of the tie pass
    tie_num,       \* running tie switch counter
    run,           \* 1 for the first generation run, 2 for its repetition
    first_nodes,   \* network_nodes.csv as written by the first run
    first_edges    \* network_edges.csv as written by the first run

\* state of the table generators (generate_substations, generate_feeders,
\* generate_transformers) followed for one feeder and one of its transformers
VARIABLES
    geo_pc,        \* position in the generation pipeline
    geo_sub,       \* the substation row the feeder hangs on
    geo_fdr,       \* the feeder row
    geo_xfmr,      \* the transformer row
    geo_nodes      \* the network node rows built for them

\* state of the validator (src/validate_demo_data.py, main)
VARIABLES
    dataset,       \* the tables returned by load_all
    results,       \* Report.results
    val_pc,        \* position in main
    totals         \* the PASS / FAIL / WARN counts printed by Report.summary

\* the rows handed to add_node, in call order
VARIABLES
    offered

geo_vars == <<geo_pc, geo_sub, geo_fdr, geo_xfmr, geo_nodes>>
val_vars == <<dataset, results, val_pc, totals>>

inputs == <<substations, feeders, transformers, seed>>
builder_vars == <<substations, feeders, transformers, seed, rng, nodes, node_set,
                  edges, edge_num, pc, i, idx, xfmrs_sorted, trunk_nodes, tie_i,
                  tie_j, tie_num, run, first_nodes, first_edges>>
reg_vars == <<offered>>
vars == <<builder_vars, geo_vars, val_vars, reg_vars>>

\* ---------------------------------------------------------------- inputs
\* Two substations, one mile apart in both directions.
SubstationRows ==
    << [substation_id |-> 1, latitude |-> 0, longitude |-> 0,
        voltage_high_kv |-> 6900, rated_capacity_mva |-> 40, status |-> "active"],
       [substation_id |-> 2, latitude |-> MILE_LAT, longitude |-> MILE_LON,
        voltage_high_kv |-> 11500, rated_capacity_mva |-> 60, status |-> "planned"] >>

\* Feeder sites: owning substation, nominal voltage and tail point.  The tail
\* points lie on the tenth-of-a-mile grid; their pairwise distances are 0, 1.2,
\* 1.34, 1.5 (twice), 2.0 and 2.5 miles.
Sites ==
    << [sub |-> 1, v |-> 1247, tail |-> <<0, MILE_LON>>],
       [sub |-> 1, v |-> 1247, tail |-> <<0, (25 * MILE_LON) \div 10>>],
       [sub |-> 2, v |-> 1247, tail |-> <<(12 * MILE_LAT) \div 10, (19 * MILE_LON) \div 10>>],
       [sub |-> 2, v |-> 1247, tail |-> <<2 * MILE_LAT, MILE_LON>>],
       [sub |-> 2, v |-> 1380, tail |-> <<0, MILE_LON>>] >>

XfmrCounts == {0, 1, 2, 3, 9, 15, 16, MaxXfmr, 24}
Lengths == {1, 250}
TrunkConductors == {"336 ACSR", "1/0 AL", "2/0 CU"}
Layouts == {"street", "near", "reversed"}

\* What is drawn for one feeder.  A lone feeder explores the feeder structure
\* (transformer count, length, conductor, layout); several feeders explore the
\* tie pass with feeders of no or one transformer.
FeederConfigs(nf) ==
    IF nf = 1
    THEN [site : DOMAIN Sites, n : XfmrCounts, length : Lengths,
          cond : TrunkConductors, layout : Layouts]
    ELSE [site : DOMAIN Sites, n : {0}, length : {250},
          cond : {"336 ACSR"}, layout : {"street"}]
      \cup [site : DOMAIN Sites, n : {1}, length : {250},
            cond : {"2/0 CU"}, layout : {"near"}]

FeederRow(f, c) ==
    LET st == Sites[c.site]
        sb == SubstationRows[st.sub]
    IN  [feeder_id |-> f, substation_id |-> st.sub, voltage_kv |-> st.v,
         latitude_head |-> sb.latitude, longitude_head |-> sb.longitude,
         latitude_tail |-> st.tail[1], longitude_tail |-> st.tail[2],
         length_miles |-> c.length, conductor_type |-> c.cond,
         rated_capacity_mw |-> 12]

XfmrPhases == <<"A", "B", "C", "AB", "BC", "AC", "ABC">>

\* The k-th transformer row (k in 1..n, in table order) of feeder row fr: a
\* point along the head->tail route, a little off the centerline.
XfmrRow(id, fr, n, k, layout) ==
    LET pos == IF layout = "reversed" THEN n + 1 - k ELSE k
        blat == fr.latitude_head
                + RoundDiv(pos * (fr.latitude_tail - fr.latitude_head), n + 1)
        blon == fr.longitude_head
                + RoundDiv(pos * (fr.longitude_tail - fr.longitude_head), n + 1)
        dlat == IF layout = "near" THEN ((pos * 37) % 61) - 30 ELSE 82
        dlon == IF layout = "near" THEN ((pos * 11) % 23) - 11 ELSE 0
    IN  [transformer_id |-> id, feeder_id |-> fr.feeder_id,
         substation_id |-> fr.substation_id,
         latitude |-> blat + dlat, longitude |-> blon + dlon,
         rated_kva |-> 25, phase |-> XfmrPhases[(id % 7) + 1],
         primary_voltage_kv |-> fr.voltage_kv, status |-> "active"]

RECURSIVE XfmrTable(_, _, _)
\* The transformer table for feeders f..nf, ids numbered from `next`.
XfmrTable(cfg, f, next) ==
    IF f > Len(cfg) THEN << >>
    ELSE [k \in 1 .. cfg[f].n |->
            XfmrRow(next + k - 1, FeederRow(f, cfg[f]), cfg[f].n, k, cfg[f].layout)]
         \o XfmrTable(cfg, f + 1, next + cfg[f].n)

\* the table generators and the validator are not running
GeoIdle ==
    /\ geo_pc = "idle"
    /\ geo_sub = << >>
    /\ geo_fdr = << >>
    /\ geo_xfmr = << >>
    /\ geo_nodes = << >>

ValIdle ==
    /\ dataset = << >>
    /\ results = << >>
    /\ val_pc = "idle"
    /\ totals = << >>

\* no add_node call is being followed
RegIdle == offered = << >>

Init ==
    \E nf \in 1 .. MaxFeeders :
      \E cfg \in [1 .. nf -> FeederConfigs(nf)] :
        \E sd \in 0 .. NumSeeds - 1 :
          /\ substations = SubstationRows
          /\ feeders = [f \in 1 .. nf |-> FeederRow(f, cfg[f])]
          /\ transformers = XfmrTable(cfg, 1, 1)
          /\ seed = sd
          /\ rng = random_seed(sd)
          /\ nodes = << >>
          /\ node_set = {}
          /\ edges = << >>
          /\ edge_num = 0
          /\ pc = "sub_nodes"
          /\ i = 1
          /\ idx = 0
          /\ xfmrs_sorted = << >>
          /\ trunk_nodes = << >>
          /\ tie_i = 1
          /\ tie_j = 2
          /\ tie_num = 0
          /\ run = 1
          /\ first_nodes = << >>
          /\ first_edges = << >>
          /\ GeoIdle
          /\ ValIdle
          /\ RegIdle

\* ------------------------------------------------------------- helpers
\* mutant: the oldest element instead of the newest
Oldest(seq) == seq[1]

Last(seq) == seq[Len(seq)]

\* mutant: the id is recorded but the row is not appended
add_node_lost(st, row) ==
    [nodes |-> st.nodes, node_set |-> st.node_set \cup {row.node_id}]

\* mutant: a row whose id was added before replaces the stored row
add_node_last_wins(st, row) ==
    IF row.node_id \notin st.node_set
    THEN [nodes |-> Append(st.nodes, row),
          node_set |-> st.node_set \cup {row.node_id}]
    ELSE [nodes |-> [k \in DOMAIN st.nodes |->
                        IF st.nodes[k].node_id = row.node_id THEN row
                        ELSE st.nodes[k]],
          node_set |-> st.node_set]

\* add_node(row): append the row unless its id was added before
add_node(st, row) ==
    IF row.node_id \notin st.node_set
    THEN [nodes |-> Append(st.nodes, row),
          node_set |-> st.node_set \cup {row.node_id}]
    ELSE st

\* mutant: the point of a node is moved as street_jitter would move it
NodeRowJittered(id, type, sub_id, fdr_id, lat, lon, v_kv, equip, cap, units, phase, status) ==
    [node_id |-> id, node_type |-> type, substation_id |-> sub_id,
     feeder_id |-> fdr_id, latitude |-> lat + 1, longitude |-> lon - 1,
     nominal_voltage_kv |-> v_kv, equipment_class |-> equip,
     rated_capacity |-> cap, rated_capacity_units |-> units,
     phase |-> phase, status |-> status]

NodeRow(id, type, sub_id, fdr_id, lat, lon, v_kv, equip, cap, units, phase, status) ==
    [node_id |-> id, node_type |-> type, substation_id |-> sub_id,
     feeder_id |-> fdr_id, latitude |-> lat, longitude |-> lon,
     nominal_voltage_kv |-> v_kv, equipment_class |-> equip,
     rated_capacity |-> cap, rated_capacity_units |-> units,
     phase |-> phase, status |-> status]

EdgeRow(num, from, to, fdr_id, sub_id, type, cond, phase, miles, ft, r, x, z0, amps, v_kv, n_phases, is_oh, status) ==
    [edge_id |-> num, from_node_id |-> from, to_node_id |-> to,
     feeder_id |-> fdr_id, substation_id |-> sub_id, edge_type |-> type,
     conductor_type |-> cond, phase |-> phase,
     length_miles |-> miles, length_ft |-> ft,
     impedance_r_ohm_per_mile |-> r, impedance_x_ohm_per_mile |-> x,
     impedance_z0_ohm_per_mile |-> z0, rated_amps |-> amps,
     nominal_voltage_kv |-> v_kv, num_phases |-> n_phases,
     is_overhead |-> is_oh, status |-> status]

\* point_along_route(lat1, lon1, lat2, lon2, num/den), the jitter drawn in
\* generator state s
point_along_route(lat1, lon1, lat2, lon2, num, den, s) ==
    LET jitter == UniformJitter(s)
    IN  << RoundDiv(lat1 * den + num * (lat2 - lat1) + jitter * den, den),
           RoundDiv(lon1 * den + num * (lon2 - lon1) + jitter * den, den) >>

\* fdr_xfmrs.get(fdr_id, []): the feeder's transformer rows, in table order
fdr_xfmrs(fdr_id) ==
    SelectSeq(transformers, LAMBDA x : x.feeder_id = fdr_id)

dist_from_head(x, hlat, hlon) ==
    (x.latitude - hlat) * (x.latitude - hlat)
    + (x.longitude - hlon) * (x.longitude - hlon)

\* insert x behind every row whose key is not larger (sorted() is stable)
InsertByDist(sorted, x, hlat, hlon) ==
    LET keep == {k \in 1 .. Len(sorted) :
                    dist_from_head(sorted[k], hlat, hlon) <= dist_from_head(x, hlat, hlon)}
        at == IF keep = {} THEN 0 ELSE CHOOSE k \in keep : \A m \in keep : m <= k
    IN  SubSeq(sorted, 1, at) \o <<x>> \o SubSeq(sorted, at + 1, Len(sorted))

RECURSIVE SortByDist(_, _, _)
\* sorted(xfmrs, key=dist_from_head)
SortByDist(xs, hlat, hlon) ==
    IF xs = << >> THEN << >>
    ELSE InsertByDist(SortByDist(SubSeq(xs, 1, Len(xs) - 1), hlat, hlon),
                      Last(xs), hlat, hlon)

\* mutant: a junction every n // 4 transformers
trunk_spacing_4(n) == Max(1, n \div 4)

\* mutant: a junction at every transformer
trunk_spacing_1(n) == 1

\* mutant: the spacing is rounded up instead of down
trunk_spacing_ceil(n) == Max(1, (n + 7) \div 8)

trunk_spacing(n) == Max(1, n \div 8)
recloser_interval(n) == Max(1, n \div 3)

\* round(frac * length, 2) with frac = (idx + 1) / (n + 1)
MileMarker(pos, n, length) == RoundDiv((pos + 1) * length, n + 1)

\* round(max(to_mile - from_mile, 0.01), 3)
SegLen(from_mile, to_mile) == Max((to_mile - from_mile) * 10, 10)

\* round(miles * 5280, 1)
FeetOf(miles) == RoundDiv(miles * 528, 10)

\* round(max(math.sqrt(dlat^2 + dlon^2) * 69, 0.001), 3)
LatLenTotal(dlat, dlon) ==
    LET d2 == dlat * dlat + dlon * dlon
        f == 4761 * (d2 \div 250000) + (4761 * (d2 % 250000)) \div 250000
    IN  Max((ISqrt(f) + 1) \div 2, 1)

\* round(lat_len_total * share, 3), share in percent
LateralMiles(total, share) == RoundDiv(total * share, 100)

\* round(lat_len_total * share * 5280, 1), share in percent
LateralFeet(total, share) == RoundDiv(total * share * 528, 1000)

PhaseCount(phase) ==
    CASE phase \in {"A", "B", "C"} -> 1
      [] phase \in {"AB", "BC", "AC"} -> 2
      [] OTHER -> 3

\* squared distance between two tail points, in hundredths of a square mile:
\* ((lat_a - lat_b) / MILE_LAT)^2 + ((lon_a - lon_b) / MILE_LON)^2
TailDist2(fa, fb) ==
    LET a == RoundDiv((fa.latitude_tail - fb.latitude_tail) * 10, MILE_LAT)
        b == RoundDiv((fa.longitude_tail - fb.longitude_tail) * 10, MILE_LON)
    IN  a * a + b * b

\* mutant: the voltages of the two feeders are not compared
SameVoltageAlways(fa, fb) == TRUE

\* v_a == v_b
SameVoltage(fa, fb) == fa.voltage_kv = fb.voltage_kv

\* mutant: a pair exactly 1.5 miles apart is skipped too
TooFarAtThreshold(fa, fb) ==
    TailDist2(fa, fb) >= TIE_THRESHOLD_TENTHS * TIE_THRESHOLD_TENTHS

\* dist > 1.5
TooFar(fa, fb) == TailDist2(fa, fb) > TIE_THRESHOLD_TENTHS * TIE_THRESHOLD_TENTHS

\* round(dist / 2, 3)
TieLen(fa, fb) == RoundSqrt(2500 * TailDist2(fa, fb))

\* round((a + b) / 2, 6)
Midpoint(a, b) == RoundDiv(a + b, 2)

\* ------------------------------------------------------------- actions
NodeState == [nodes |-> nodes, node_set |-> node_set]

\* for sub in substations: add the substation bus node
AddSubstationBus ==
    /\ pc = "sub_nodes"
    /\ LET sub == substations[i]
           st == add_node(NodeState,
                    NodeRow(SubNodeId(sub.substation_id), "substation_bus",
                            sub.substation_id, NoFeeder,
                            sub.latitude, sub.longitude, sub.voltage_high_kv,
                            "substation", sub.rated_capacity_mva, "MVA", "ABC",
                            sub.status))
       IN  /\ nodes' = st.nodes
           /\ node_set' = st.node_set
    /\ IF i < Len(substations)
       THEN i' = i + 1 /\ pc' = pc
       ELSE i' = 1 /\ pc' = "fdr_nodes"
    /\ UNCHANGED <<inputs, geo_vars, val_vars, reg_vars, rng, edges, edge_num, idx, xfmrs_sorted, trunk_nodes,
                   tie_i, tie_j, tie_num, run, first_nodes, first_edges>>

\* for fdr in feeders: add the breaker (head) and open point (tail) nodes
AddFeederNodes ==
    /\ pc = "fdr_nodes"
    /\ LET fdr == feeders[i]
           s1 == add_node(NodeState,
                    NodeRow(HeadId(fdr.feeder_id), "feeder_breaker",
                            fdr.substation_id, fdr.feeder_id,
                            fdr.latitude_head, fdr.longitude_head, fdr.voltage_kv,
                            "breaker", fdr.rated_capacity_mw, "MW", "ABC", "closed"))
           s2 == add_node(s1,
                    NodeRow(TailId(fdr.feeder_id), "feeder_endpoint",
                            fdr.substation_id, fdr.feeder_id,
                            fdr.latitude_tail, fdr.longitude_tail, fdr.voltage_kv,
                            "open_point", 0, "", "ABC", "open"))
       IN  /\ nodes' = s2.nodes
           /\ node_set' = s2.node_set
    /\ IF i < Len(feeders)
       THEN i' = i + 1 /\ pc' = pc
       ELSE i' = 1 /\ pc' = IF Len(transformers) > 0 THEN "xfmr_nodes" ELSE "edges"
    /\ UNCHANGED <<inputs, geo_vars, val_vars, reg_vars, rng, edges, edge_num, idx, xfmrs_sorted, trunk_nodes,
                   tie_i, tie_j, tie_num, run, first_nodes, first_edges>>

\* for xfmr in transformers: add the transformer node
AddTransformerNode ==
    /\ pc = "xfmr_nodes"
    /\ LET xfmr == transformers[i]
           st == add_node(NodeState,
                    NodeRow(XfmrNodeId(xfmr.transformer_id), "transformer",
                            xfmr.substation_id, xfmr.feeder_id,
                            xfmr.latitude, xfmr.longitude, xfmr.primary_voltage_kv,
                            "distribution_transformer", xfmr.rated_kva, "kVA",
                            xfmr.phase, xfmr.status))
       IN  /\ nodes' = st.nodes
           /\ node_set' = st.node_set
    /\ IF i < Len(transformers)
       THEN i' = i + 1 /\ pc' = pc
       ELSE i' = 1 /\ pc' = "edges"
    /\ UNCHANGED <<inputs, geo_vars, val_vars, reg_vars, rng, edges, edge_num, idx, xfmrs_sorted, trunk_nodes,
                   tie_i, tie_j, tie_num, run, first_nodes, first_edges>>

\* the per-feeder loop moves on: next feeder, or the tie pass after the last
NextFeeder ==
    IF i < Len(feeders)
    THEN i' = i + 1 /\ pc' = "edges"
    ELSE i' = 1 /\ pc' = IF Len(feeders) >= 2 THEN "ties" ELSE "write"

\* top of the per-feeder loop: the bus tie edge, then the feeder's
\* transformers sorted by distance from the head (`continue` when it has none)
BusTie ==
    /\ pc = "edges"
    /\ LET fdr == feeders[i]
           spec == ConductorGet(fdr.conductor_type)
           xfmrs == fdr_xfmrs(fdr.feeder_id)
       IN  /\ edge_num' = edge_num + 1
           /\ edges' = Append(edges,
                  EdgeRow(edge_num + 1, SubNodeId(fdr.substation_id),
                          HeadId(fdr.feeder_id), fdr.feeder_id, fdr.substation_id,
                          "bus_tie", fdr.conductor_type, "ABC", 10, 528,
                          JitteredOhm(spec[1], rng),
                          JitteredOhm(spec[2], RngAt(rng, 1)),
                          Z0(spec[1], spec[2]),
                          spec[3], fdr.voltage_kv, 3, 1, "closed"))
           /\ rng' = RngAt(rng, 2)
           /\ IF xfmrs = << >>
              THEN /\ NextFeeder
                   /\ UNCHANGED <<xfmrs_sorted, trunk_nodes, idx>>
              ELSE /\ xfmrs_sorted' = SortByDist(xfmrs, fdr.latitude_head,
                                                 fdr.longitude_head)
                   /\ trunk_nodes' = << >>
                   /\ idx' = 0
                   /\ pc' = "walk"
                   /\ i' = i
    /\ UNCHANGED <<inputs, geo_vars, val_vars, reg_vars, nodes, node_set, tie_i, tie_j, tie_num, run,
                   first_nodes, first_edges>>

\* equipment class of the junction created at sorted index pos as the
\* jnum-th junction of a feeder with n transformers; draws counts the
\* random numbers consumed
JunctionClass(pos, jnum, n, s) ==
    IF pos > 0 /\ pos % recloser_interval(n) = 0
    THEN [class |-> "recloser", draws |-> 0]
    ELSE IF jnum % 4 = 0
    THEN [class |-> "sectionalizer", draws |-> 0]
    ELSE [class |-> IF RandomAbove(s, 20) THEN "pole_top" ELSE "padmount",
          draws |-> 1]

\* body of `for idx, xfmr in enumerate(xfmrs_sorted)`: a junction and its
\* trunk edge when idx % trunk_spacing == 0, then the fuse node and the two
\* lateral edges of the transformer
VisitTransformer ==
    /\ pc = "walk"
    /\ LET fdr == feeders[i]
           fdr_id == fdr.feeder_id
           sub_id == fdr.substation_id
           v_kv == fdr.voltage_kv
           xfmr == xfmrs_sorted[idx + 1]
           n == Len(xfmrs_sorted)
           spec == ConductorGet(fdr.conductor_type)
           mile_marker == MileMarker(idx, n, fdr.length_miles)
           is_jct == idx % trunk_spacing(n) = 0
           \* --- junction and trunk edge
           jnum == Len(trunk_nodes) + 1
           tap_id == JctId(fdr_id, jnum)
           tap == point_along_route(fdr.latitude_head, fdr.longitude_head,
                                    fdr.latitude_tail, fdr.longitude_tail,
                                    idx + 1, n + 1, rng)
           cls == JunctionClass(idx, jnum, n, RngAt(rng, 1))
           d == 1 + cls.draws
           prev_id == IF jnum = 1 THEN HeadId(fdr_id) ELSE trunk_nodes[jnum - 1].tap_id
           prev_mile == IF jnum = 1 THEN 0 ELSE trunk_nodes[jnum - 1].mile_marker
           seg_len == SegLen(prev_mile, mile_marker)
           t_oh == IF RandomAbove(RngAt(rng, d), 15) THEN 1 ELSE 0
           trunk_edge ==
               EdgeRow(edge_num + 1, prev_id, tap_id, fdr_id, sub_id,
                       IF t_oh = 1 THEN "primary_overhead" ELSE "primary_underground",
                       fdr.conductor_type, "ABC", seg_len, FeetOf(seg_len),
                       JitteredOhm(spec[1], RngAt(rng, d + 1)),
                       JitteredOhm(spec[2], RngAt(rng, d + 2)),
                       JitteredZ0(spec[1], spec[2], RngAt(rng, d + 3)),
                       spec[3], v_kv, 3, t_oh, "closed")
           tn1 == IF is_jct
                  THEN Append(trunk_nodes,
                              [tap_id |-> tap_id, lat |-> tap[1], lon |-> tap[2],
                               mile_marker |-> mile_marker])
                  ELSE trunk_nodes
           st1 == IF is_jct
                  THEN add_node(NodeState,
                          NodeRow(tap_id, "junction", sub_id, fdr_id, tap[1], tap[2],
                                  v_kv, cls.class, 0, "", "ABC", "active"))
                  ELSE NodeState
           e1 == IF is_jct THEN Append(edges, trunk_edge) ELSE edges
           en1 == IF is_jct THEN edge_num + 1 ELSE edge_num
           r1 == IF is_jct THEN RngAt(rng, d + 4) ELSE rng
           \* --- lateral: fuse node, junction -> fuse, fuse -> transformer
           nearest == Last(tn1)
           fuse_id == FuseId(xfmr.transformer_id)
           fuse == point_along_route(nearest.lat, nearest.lon,
                                     xfmr.latitude, xfmr.longitude, 3, 20, r1)
           st2 == add_node(st1,
                      NodeRow(fuse_id, "protective_device", sub_id, fdr_id,
                              fuse[1], fuse[2], v_kv, "fuse", 0, "", xfmr.phase,
                              "closed"))
           lat_len_total == LatLenTotal(xfmr.latitude - nearest.lat,
                                        xfmr.longitude - nearest.lon)
           lat_cond == random_choice(lateral_conductors, RngAt(r1, 1))
           lspec == lateral_specs[lat_cond]
           n_phases == Min(PhaseCount(xfmr.phase), 3)
           l_oh == IF RandomAbove(RngAt(r1, 2), 25) THEN 1 ELSE 0
           l_type == IF l_oh = 1 THEN "lateral_overhead" ELSE "lateral_underground"
           to_fuse ==
               EdgeRow(en1 + 1, nearest.tap_id, fuse_id, fdr_id, sub_id, l_type,
                       lat_cond, xfmr.phase,
                       LateralMiles(lat_len_total, 15), LateralFeet(lat_len_total, 15),
                       JitteredOhm(lspec[1], RngAt(r1, 3)),
                       JitteredOhm(lspec[2], RngAt(r1, 4)),
                       Z0(lspec[1], lspec[2]),
                       lspec[3], v_kv, n_phases, l_oh, "closed")
           to_xfmr ==
               EdgeRow(en1 + 2, fuse_id, XfmrNodeId(xfmr.transformer_id), fdr_id,
                       sub_id, l_type, lat_cond, xfmr.phase,
                       LateralMiles(lat_len_total, 85), LateralFeet(lat_len_total, 85),
                       JitteredOhm(lspec[1], RngAt(r1, 5)),
                       JitteredOhm(lspec[2], RngAt(r1, 6)),
                       Z0(lspec[1], lspec[2]),
                       lspec[3], v_kv, n_phases, l_oh, "closed")
       IN  /\ trunk_nodes' = tn1
           /\ nodes' = st2.nodes
           /\ node_set' = st2.node_set
           /\ edges' = e1 \o <<to_fuse, to_xfmr>>
           /\ edge_num' = en1 + 2
           /\ rng' = RngAt(r1, 7)
           /\ idx' = idx + 1
           /\ pc' = IF idx + 1 = n THEN "closing" ELSE "walk"
    /\ UNCHANGED <<inputs, geo_vars, val_vars, reg_vars, i, xfmrs_sorted, tie_i, tie_j, tie_num, run,
                   first_nodes, first_edges>>

\* mutant: the final trunk segment is emitted closed like the others
ClosingTrunkClosed ==
    /\ pc = "closing"
    /\ LET fdr == feeders[i]
           spec == ConductorGet(fdr.conductor_type)
           is_oh == IF RandomAbove(rng, 15) THEN 1 ELSE 0
       IN  IF trunk_nodes # << >>
           THEN LET last == Last(trunk_nodes)
                    seg_len == SegLen(last.mile_marker, fdr.length_miles)
                IN  /\ edge_num' = edge_num + 1
                    /\ edges' = Append(edges,
                          EdgeRow(edge_num + 1, last.tap_id, TailId(fdr.feeder_id),
                                  fdr.feeder_id, fdr.substation_id,
                                  IF is_oh = 1 THEN "primary_overhead"
                                               ELSE "primary_underground",
                                  fdr.conductor_type, "ABC", seg_len, FeetOf(seg_len),
                                  JitteredOhm(spec[1], RngAt(rng, 1)),
                                  JitteredOhm(spec[2], RngAt(rng, 2)),
                                  Z0(spec[1], spec[2]),
                                  spec[3], fdr.voltage_kv, 3, is_oh, "closed"))
                    /\ rng' = RngAt(rng, 3)
           ELSE UNCHANGED <<edge_num, edges, rng>>
    /\ NextFeeder
    /\ UNCHANGED <<inputs, geo_vars, val_vars, reg_vars, nodes, node_set, idx, xfmrs_sorted, trunk_nodes,
                   tie_i, tie_j, tie_num, run, first_nodes, first_edges>>

\* mutant: the final trunk segment does not advance the edge counter
ClosingTrunkUncounted ==
    /\ pc = "closing"
    /\ LET fdr == feeders[i]
           spec == ConductorGet(fdr.conductor_type)
           is_oh == IF RandomAbove(rng, 15) THEN 1 ELSE 0
       IN  IF trunk_nodes # << >>
           THEN LET last == Last(trunk_nodes)
                    seg_len == SegLen(last.mile_marker, fdr.length_miles)
                IN  /\ edge_num' = edge_num
                    /\ edges' = Append(edges,
                          EdgeRow(edge_num + 1, last.tap_id, TailId(fdr.feeder_id),
                                  fdr.feeder_id, fdr.substation_id,
                                  IF is_oh = 1 THEN "primary_overhead"
                                               ELSE "primary_underground",
                                  fdr.conductor_type, "ABC", seg_len, FeetOf(seg_len),
                                  JitteredOhm(spec[1], RngAt(rng, 1)),
                                  JitteredOhm(spec[2], RngAt(rng, 2)),
                                  Z0(spec[1], spec[2]),
                                  spec[3], fdr.voltage_kv, 3, is_oh, "open"))
                    /\ rng' = RngAt(rng, 3)
           ELSE UNCHANGED <<edge_num, edges, rng>>
    /\ NextFeeder
    /\ UNCHANGED <<inputs, geo_vars, val_vars, reg_vars, nodes, node_set, idx, xfmrs_sorted, trunk_nodes,
                   tie_i, tie_j, tie_num, run, first_nodes, first_edges>>

\* `if trunk_nodes:` the final trunk segment from the last junction to the tail
ClosingTrunk ==
    /\ pc = "closing"
    /\ LET fdr == feeders[i]
           spec == ConductorGet(fdr.conductor_type)
           is_oh == IF RandomAbove(rng, 15) THEN 1 ELSE 0
       IN  IF trunk_nodes # << >>
           THEN LET last == Last(trunk_nodes)
                    seg_len == SegLen(last.mile_marker, fdr.length_miles)
                IN  /\ edge_num' = edge_num + 1
                    /\ edges' = Append(edges,
                          EdgeRow(edge_num + 1, last.tap_id, TailId(fdr.feeder_id),
                                  fdr.feeder_id, fdr.substation_id,
                                  IF is_oh = 1 THEN "primary_overhead"
                                               ELSE "primary_underground",
                                  fdr.conductor_type, "ABC", seg_len, FeetOf(seg_len),
                                  JitteredOhm(spec[1], RngAt(rng, 1)),
                                  JitteredOhm(spec[2], RngAt(rng, 2)),
                                  Z0(spec[1], spec[2]),
                                  spec[3], fdr.voltage_kv, 3, is_oh, "open"))
                    /\ rng' = RngAt(rng, 3)
           ELSE UNCHANGED <<edge_num, edges, rng>>
    /\ NextFeeder
    /\ UNCHANGED <<inputs, geo_vars, val_vars, reg_vars, nodes, node_set, idx, xfmrs_sorted, trunk_nodes,
                   tie_i, tie_j, tie_num, run, first_nodes, first_edges>>

\* the tie pass moves on to the next pair (i, j), i < j
NextPair ==
    IF tie_j < Len(feeders)
    THEN tie_j' = tie_j + 1 /\ tie_i' = tie_i /\ pc' = pc
    ELSE IF tie_i + 1 < Len(feeders)
    THEN tie_i' = tie_i + 1 /\ tie_j' = tie_i + 2 /\ pc' = pc
    ELSE tie_i' = tie_i /\ tie_j' = tie_j /\ pc' = "write"

\* `if v_a != v_b: continue`
TieSkipVoltage ==
    /\ pc = "ties"
    /\ ~SameVoltage(feeders[tie_i], feeders[tie_j])
    /\ NextPair
    /\ UNCHANGED <<inputs, geo_vars, val_vars, reg_vars, rng, nodes, node_set, edges, edge_num, i, idx,
                   xfmrs_sorted, trunk_nodes, tie_num, run, first_nodes, first_edges>>

\* `if dist > 1.5: continue`
TieSkipDistance ==
    /\ pc = "ties"
    /\ SameVoltage(feeders[tie_i], feeders[tie_j])
    /\ TooFar(feeders[tie_i], feeders[tie_j])
    /\ NextPair
    /\ UNCHANGED <<inputs, geo_vars, val_vars, reg_vars, rng, nodes, node_set, edges, edge_num, i, idx,
                   xfmrs_sorted, trunk_nodes, tie_num, run, first_nodes, first_edges>>

\* create the tie switch node and the two tie edges of the pair
TieCreate ==
    /\ pc = "ties"
    /\ SameVoltage(feeders[tie_i], feeders[tie_j])
    /\ ~TooFar(feeders[tie_i], feeders[tie_j])
    /\ LET fa == feeders[tie_i]
           fb == feeders[tie_j]
           tie_id == TieId(tie_num + 1)
           st == add_node(NodeState,
                    NodeRow(tie_id, "tie_switch", fa.substation_id, fa.feeder_id,
                            Midpoint(fa.latitude_tail, fb.latitude_tail),
                            Midpoint(fa.longitude_tail, fb.longitude_tail),
                            fa.voltage_kv, "tie_switch", 0, "", "ABC", "open"))
           tie_len == Max(TieLen(fa, fb), 10)
           cond == fa.conductor_type
           spec == ConductorGet(cond)
       IN  /\ tie_num' = tie_num + 1
           /\ nodes' = st.nodes
           /\ node_set' = st.node_set
           /\ edges' = edges \o
                << EdgeRow(edge_num + 1, TailId(fa.feeder_id), tie_id,
                           fa.feeder_id, fa.substation_id, "tie", cond, "ABC",
                           tie_len, FeetOf(tie_len), spec[1] * 10, spec[2] * 10,
                           Z0(spec[1], spec[2]), spec[3], fa.voltage_kv, 3, 1, "open"),
                   EdgeRow(edge_num + 2, tie_id, TailId(fb.feeder_id),
                           fb.feeder_id, fb.substation_id, "tie", cond, "ABC",
                           tie_len, FeetOf(tie_len), spec[1] * 10, spec[2] * 10,
                           Z0(spec[1], spec[2]), spec[3], fb.voltage_kv, 3, 1, "open") >>
           /\ edge_num' = edge_num + 2
    /\ NextPair
    /\ UNCHANGED <<inputs, geo_vars, val_vars, reg_vars, rng, i, idx, xfmrs_sorted, trunk_nodes, run,
                   first_nodes, first_edges>>

\* write_csv of both tables; the function returns
WriteCsv ==
    /\ pc = "write"
    /\ pc' = "done"
    /\ first_nodes' = IF run = 1 THEN nodes ELSE first_nodes
    /\ first_edges' = IF run = 1 THEN edges ELSE first_edges
    /\ UNCHANGED <<inputs, geo_vars, val_vars, reg_vars, rng, nodes, node_set, edges, edge_num, i, idx,
                   xfmrs_sorted, trunk_nodes, tie_i, tie_j, tie_num, run>>

\* mutant: the second run does not seed the generator
RerunUnseeded ==
    /\ pc = "done"
    /\ run = 1
    /\ run' = 2
    /\ rng' = rng
    /\ nodes' = << >>
    /\ node_set' = {}
    /\ edges' = << >>
    /\ edge_num' = 0
    /\ pc' = "sub_nodes"
    /\ i' = 1
    /\ idx' = 0
    /\ xfmrs_sorted' = << >>
    /\ trunk_nodes' = << >>
    /\ tie_i' = 1
    /\ tie_j' = 2
    /\ tie_num' = 0
    /\ UNCHANGED <<inputs, geo_vars, val_vars, reg_vars, first_nodes, first_edges>>

\* a second generation run on the same inputs: a fresh process, whose import
\* of the module executes random.seed again
Rerun ==
    /\ pc = "done"
    /\ run = 1
    /\ run' = 2
    /\ rng' = random_seed(seed)
    /\ nodes' = << >>
    /\ node_set' = {}
    /\ edges' = << >>
    /\ edge_num' = 0
    /\ pc' = "sub_nodes"
    /\ i' = 1
    /\ idx' = 0
    /\ xfmrs_sorted' = << >>
    /\ trunk_nodes' = << >>
    /\ tie_i' = 1
    /\ tie_j' = 2
    /\ tie_num' = 0
    /\ UNCHANGED <<inputs, geo_vars, val_vars, reg_vars, first_nodes, first_edges>>

Next ==
    \/ AddSubstationBus
    \/ AddFeederNodes
    \/ AddTransformerNode
    \/ BusTie
    \/ VisitTransformer
    \/ ClosingTrunk
    \/ TieSkipVoltage
    \/ TieSkipDistance
    \/ TieCreate
    \/ WriteCsv
    \/ Rerun

Spec == Init /\ [][Next]_vars

\* =================================================================
\* The table generators: where the points of the network come from
\* =================================================================
\* Points are (latitude, longitude) in micro-degrees.
GRID_ORIGIN_LAT == 33448400
GRID_ORIGIN_LON == 0 - 112074000

\* (miles_north in half miles, miles_east in miles) of the 15 substations
SUBSTATION_DEFS ==
    << <<11, -4>>, <<9, 0>>, <<11, 3>>, <<6, -1>>, <<4, 4>>,
       <<15, -5>>, <<13, 2>>, <<9, 5>>, <<4, -2>>, <<6, 6>>,
       <<-12, 0>>, <<-6, 1>>, <<4, 7>>, <<-12, 3>>, <<19, -4>> >>

DIRECTIONS == {"N", "S", "E", "W"}

\* length = round(random.uniform(2.0, 8.0), 1), in tenths of a mile
MIN_LENGTH == 20
MAX_LENGTH == 80

\* transformers followed on the feeder (the source places 40 or more)
GeoXfmrs == 5

\* feet of perpendicular_offset(.., feet=30) in generate_transformers
XFMR_OFFSET_FT == 30

\* grid_coord(miles_north, miles_east)
grid_coord(half_miles_north, miles_east) ==
    << GRID_ORIGIN_LAT + RoundDiv(half_miles_north * MILE_LAT, 2),
       GRID_ORIGIN_LON + miles_east * MILE_LON >>

\* along_street(start_lat, start_lon, direction, distance_mi)
along_street(start_lat, start_lon, direction, tenths) ==
    CASE direction = "N" -> << start_lat + RoundDiv(tenths * MILE_LAT, 10), start_lon >>
      [] direction = "S" -> << start_lat - RoundDiv(tenths * MILE_LAT, 10), start_lon >>
      [] direction = "E" -> << start_lat, start_lon + RoundDiv(tenths * MILE_LON, 10) >>
      [] OTHER -> << start_lat, start_lon - RoundDiv(tenths * MILE_LON, 10) >>

\* perpendicular_offset(lat, lon, direction, feet) with side = random.choice([-1, 1])
perpendicular_offset(lat, lon, direction, feet, side) ==
    IF direction \in {"N", "S"}
    THEN << lat, lon + side * RoundDiv(feet * MILE_LON, 5280) >>
    ELSE << lat + side * RoundDiv(feet * MILE_LAT, 5280), lon >>

\* point_along_route(lat1, lon1, lat2, lon2, num/den) with the given jitter
RoutePoint(lat1, lon1, lat2, lon2, num, den, jitter) ==
    << lat1 + RoundDiv(num * (lat2 - lat1), den) + jitter,
       lon1 + RoundDiv(num * (lon2 - lon1), den) + jitter >>

\* outcomes of random.uniform(-0.00005, 0.00005) followed: both ends and 0
Jitters == {0 - JITTER_MAX, 0, JITTER_MAX}

\* the graph builder is not running
BuilderIdle ==
    /\ substations = << >>
    /\ feeders = << >>
    /\ transformers = << >>
    /\ seed = 0
    /\ rng = 0
    /\ nodes = << >>
    /\ node_set = {}
    /\ edges = << >>
    /\ edge_num = 0
    /\ pc = "idle"
    /\ i = 1
    /\ idx = 0
    /\ xfmrs_sorted = << >>
    /\ trunk_nodes = << >>
    /\ tie_i = 1
    /\ tie_j = 2
    /\ tie_num = 0
    /\ run = 1
    /\ first_nodes = << >>
    /\ first_edges = << >>

GeoInit ==
    /\ geo_pc = "substations"
    /\ geo_sub = << >>
    /\ geo_fdr = << >>
    /\ geo_xfmr = << >>
    /\ geo_nodes = << >>
    /\ BuilderIdle
    /\ ValIdle
    /\ RegIdle

\* generate_substations: the row of one of the 15 substations
GenerateSubstation ==
    /\ geo_pc = "substations"
    /\ \E n \in DOMAIN SUBSTATION_DEFS :
          LET p == grid_coord(SUBSTATION_DEFS[n][1], SUBSTATION_DEFS[n][2])
          IN  geo_sub' = [substation_id |-> n, latitude |-> p[1], longitude |-> p[2]]
    /\ geo_pc' = "feeders"
    /\ UNCHANGED <<geo_fdr, geo_xfmr, geo_nodes, builder_vars, val_vars, reg_vars>>

\* generate_feeders: one feeder of the substation, its direction and length
\* drawn at random
GenerateFeeder ==
    /\ geo_pc = "feeders"
    /\ \E d \in DIRECTIONS :
          \E length \in MIN_LENGTH .. MAX_LENGTH :
              LET tail == along_street(geo_sub.latitude, geo_sub.longitude, d, length)
              IN  geo_fdr' = [feeder_id |-> 1, substation_id |-> geo_sub.substation_id,
                              latitude_head |-> geo_sub.latitude,
                              longitude_head |-> geo_sub.longitude,
                              latitude_tail |-> tail[1], longitude_tail |-> tail[2],
                              direction |-> d, length_miles |-> length]
    /\ geo_pc' = "transformers"
    /\ UNCHANGED <<geo_sub, geo_xfmr, geo_nodes, builder_vars, val_vars, reg_vars>>

\* generate_transformers: the k-th transformer of the feeder
GenerateTransformer ==
    /\ geo_pc = "transformers"
    /\ \E k \in {0, GeoXfmrs - 1} :
          \E jitter \in Jitters \ {0} :
              \E side \in {-1, 1} :
                  LET on == RoutePoint(geo_fdr.latitude_head, geo_fdr.longitude_head,
                                       geo_fdr.latitude_tail, geo_fdr.longitude_tail,
                                       k + 1, GeoXfmrs + 1, jitter)
                      off == perpendicular_offset(on[1], on[2], geo_fdr.direction,
                                                  XFMR_OFFSET_FT, side)
                  IN  geo_xfmr' = [transformer_id |-> k + 1, feeder_id |-> 1,
                                   position |-> k,
                                   latitude |-> off[1], longitude |-> off[2]]
    /\ geo_pc' = "nodes"
    /\ UNCHANGED <<geo_sub, geo_fdr, geo_nodes, builder_vars, val_vars, reg_vars>>

\* generate_network_nodes_and_edges: the nodes of the substation, the feeder
\* and the transformer (bus, breaker, endpoint, transformer, junction, fuse)
GenerateNodes ==
    /\ geo_pc = "nodes"
    /\ \E j1 \in Jitters \ {0} :
          \E j2 \in Jitters :
              LET jct == RoutePoint(geo_fdr.latitude_head, geo_fdr.longitude_head,
                                    geo_fdr.latitude_tail, geo_fdr.longitude_tail,
                                    geo_xfmr.position + 1, GeoXfmrs + 1, j1)
                  fuse == RoutePoint(jct[1], jct[2], geo_xfmr.latitude,
                                     geo_xfmr.longitude, 15, 100, j2)
              IN  geo_nodes' =
                    << [node_type |-> "substation_bus",
                        latitude |-> geo_sub.latitude, longitude |-> geo_sub.longitude],
                       [node_type |-> "feeder_breaker",
                        latitude |-> geo_fdr.latitude_head,
                        longitude |-> geo_fdr.longitude_head],
                       [node_type |-> "feeder_endpoint",
                        latitude |-> geo_fdr.latitude_tail,
                        longitude |-> geo_fdr.longitude_tail],
                       [node_type |-> "transformer",
                        latitude |-> geo_xfmr.latitude, longitude |-> geo_xfmr.longitude],
                       [node_type |-> "junction", latitude |-> jct[1], longitude |-> jct[2]],
                       [node_type |-> "protective_device",
                        latitude |-> fuse[1], longitude |-> fuse[2]] >>
    /\ geo_pc' = "done"
    /\ UNCHANGED <<geo_sub, geo_fdr, geo_xfmr, builder_vars, val_vars, reg_vars>>

GeoNext ==
    \/ GenerateSubstation
    \/ GenerateFeeder
    \/ GenerateTransformer
    \/ GenerateNodes

GeoSpec == GeoInit /\ [][GeoNext]_vars

\* =================================================================
\* The validator (src/validate_demo_data.py): the checks of main on the
\* feeders, customers, network_nodes, network_edges and weather_data tables
\* =================================================================
\* rows of network_edges followed one by one
MaxValEdges == 4

\* expected row counts of the row count check
EXPECTED_FEEDERS == 65
EXPECTED_NODES == 43827
EXPECTED_EDGES == 43826
EXPECTED_WEATHER == 43848

\* Report.ok, Report.fail, Report.warn
ok(res, cat, check) == Append(res, [cat |-> cat, check |-> check, status |-> "PASS"])
fail(res, cat, check) == Append(res, [cat |-> cat, check |-> check, status |-> "FAIL"])
warn(res, cat, check) == Append(res, [cat |-> cat, check |-> check, status |-> "WARN"])

\* ---- the loaded dataset
ValEdge(from, to, fdr, type, v_kv) ==
    [from_node_id |-> from, to_node_id |-> to, feeder_id |-> fdr,
     edge_type |-> type, nominal_voltage_kv |-> v_kv]

\* network_nodes: three nodes of feeder 1, the tails of feeders 1 and 2 and
\* two tie switches
ValNodes ==
    << [node_id |-> "A", node_type |-> "feeder_breaker"],
       [node_id |-> "B", node_type |-> "junction"],
       [node_id |-> "C", node_type |-> "junction"],
       [node_id |-> "TA", node_type |-> "feeder_endpoint"],
       [node_id |-> "TB", node_type |-> "feeder_endpoint"],
       [node_id |-> "S1", node_type |-> "tie_switch"],
       [node_id |-> "S2", node_type |-> "tie_switch"] >>

\* the rows network_edges is drawn from
EdgeChoices ==
    { ValEdge("A", "B", 1, "primary_overhead", 1247),
      ValEdge("B", "C", 1, "primary_overhead", 1247),
      ValEdge("B", "A", 1, "primary_underground", 1247),
      ValEdge("A", "A", 1, "primary_overhead", 1247),
      ValEdge("C", "TA", 1, "primary_overhead", 1247),
      ValEdge("TA", "S1", 1, "tie", 1247),
      ValEdge("S1", "TB", 2, "tie", 1247),
      ValEdge("S1", "TB", 2, "tie", 1380),
      ValEdge("S1", "TB", 1, "tie", 1247),
      ValEdge("TA", "S2", 1, "tie", 1247),
      ValEdge("S2", "TB", 2, "tie", 1247) }

\* network_edges tables: up to MaxValEdges different rows, in any order
EdgeTables ==
    UNION { {t \in [1 .. n -> EdgeChoices] : \A a, b \in 1 .. n : a # b => t[a] # t[b]}
            : n \in 0 .. MaxValEdges }

FeederTbl(stated) ==
    << [feeder_id |-> 1, num_customers |-> stated], [feeder_id |-> 2, num_customers |-> 0] >>

\* the other tables: feeders, customers (their feeder_id), weather timestamps
\* (hours), and whether the tables have the expected number of rows
OtherTables ==
    { [feeders |-> FeederTbl(1), customers |-> <<1>>, weather |-> <<0, 1, 2>>, sized |-> TRUE],
      [feeders |-> << >>, customers |-> << >>, weather |-> <<0, 1, 2>>, sized |-> TRUE],
      [feeders |-> FeederTbl(1), customers |-> <<1>>, weather |-> << >>, sized |-> TRUE],
      [feeders |-> FeederTbl(3), customers |-> <<1>>, weather |-> <<2, 0>>, sized |-> FALSE],
      [feeders |-> FeederTbl(1), customers |-> <<1>>, weather |-> <<1, 0, 1>>, sized |-> TRUE],
      [feeders |-> FeederTbl(1), customers |-> <<1>>, weather |-> <<0, 1, 2>>, sized |-> FALSE] }

\* rows of a table that are not followed one by one: well-formed rows that
\* pass every check and hold no tie edge
Further(tbl, expected, sized) ==
    IF sized /\ Len(tbl) > 0 THEN expected - Len(tbl) ELSE 0

ValInit ==
    /\ \E o \in OtherTables :
          \E et \in EdgeTables :
              dataset = [feeders |-> o.feeders, customers |-> o.customers,
                         weather_data |-> o.weather,
                         network_nodes |-> ValNodes, network_edges |-> et,
                         further |->
                            [feeders |-> Further(o.feeders, EXPECTED_FEEDERS, o.sized),
                             network_nodes |-> Further(ValNodes, EXPECTED_NODES, o.sized),
                             network_edges |-> Further(et, EXPECTED_EDGES, o.sized),
                             weather_data |-> Further(o.weather, EXPECTED_WEATHER, o.sized)]]
    /\ results = << >>
    /\ val_pc = "row_counts"
    /\ totals = << >>
    /\ BuilderIdle
    /\ RegIdle
    /\ GeoIdle

\* len(df)
RowCount(name) == Len(dataset[name]) + dataset.further[name]

\* one iteration of the row count loop
CountCheck(res, name, expected) ==
    IF RowCount(name) = expected
    THEN ok(res, "0. Row Counts", name)
    ELSE fail(res, "0. Row Counts", name)

\* Category 0: row counts
RowCounts ==
    /\ val_pc = "row_counts"
    /\ results' =
          CountCheck(
            CountCheck(
              CountCheck(
                CountCheck(results, "feeders", EXPECTED_FEEDERS),
                "network_nodes", EXPECTED_NODES),
              "network_edges", EXPECTED_EDGES),
            "weather_data", EXPECTED_WEATHER)
    /\ val_pc' = "referential"
    /\ UNCHANGED <<dataset, totals, builder_vars, geo_vars, reg_vars>>

Column(tbl, field) == [k \in DOMAIN tbl |-> tbl[k][field]]
Values(col) == {col[k] : k \in DOMAIN col}

check_fk(res, label, child_col, parent_ids) ==
    IF \A k \in DOMAIN child_col : child_col[k] \in parent_ids
    THEN ok(res, "1. Referential Integrity", label)
    ELSE fail(res, "1. Referential Integrity", label)

\* Category 1: referential integrity of the edges table
ReferentialIntegrity ==
    /\ val_pc = "referential"
    /\ LET node_ids == Values(Column(dataset.network_nodes, "node_id"))
           fdr_ids == Values(Column(dataset.feeders, "feeder_id"))
           edges_tbl == dataset.network_edges
       IN  results' =
             check_fk(
               check_fk(
                 check_fk(results, "edges.from_node_id -> nodes",
                          Column(edges_tbl, "from_node_id"), node_ids),
                 "edges.to_node_id -> nodes", Column(edges_tbl, "to_node_id"), node_ids),
               "edges.feeder_id -> feeders", Column(edges_tbl, "feeder_id"), fdr_ids)
    /\ val_pc' = "cross_table"
    /\ UNCHANGED <<dataset, totals, builder_vars, geo_vars, reg_vars>>

\* custs.groupby("feeder_id").size().get(fid, 0)
ActualCustomers(fid) ==
    Cardinality({k \in DOMAIN dataset.customers : dataset.customers[k] = fid})

\* max(discreps) over the feeders table
MaxDiscrepancy ==
    LET discreps == [k \in DOMAIN dataset.feeders |->
                        Abs(dataset.feeders[k].num_customers
                            - ActualCustomers(dataset.feeders[k].feeder_id))]
    IN  CHOOSE d \in Values(discreps) : \A x \in Values(discreps) : x <= d

\* Category 2: feeders.num_customers against the customers table;
\* sum(discreps) / len(discreps) raises ZeroDivisionError on an empty table
CrossTableCounts ==
    /\ val_pc = "cross_table"
    /\ IF Len(dataset.feeders) = 0
       THEN /\ val_pc' = "raised"
            /\ UNCHANGED results
       ELSE /\ results' =
                  IF MaxDiscrepancy = 0
                  THEN ok(results, "2. Cross-Table Counts", "feeders.num_customers vs actual")
                  ELSE warn(results, "2. Cross-Table Counts", "feeders.num_customers vs actual")
            /\ val_pc' = "self_loops"
    /\ UNCHANGED <<dataset, totals, builder_vars, geo_vars, reg_vars>>

\* Category 6: self-loops
SelfLoops ==
    /\ val_pc = "self_loops"
    /\ LET self_loops == SelectSeq(dataset.network_edges,
                                   LAMBDA e : e.from_node_id = e.to_node_id)
       IN  results' = IF Len(self_loops) = 0
                      THEN ok(results, "6. Network Topology", "self-loops")
                      ELSE fail(results, "6. Network Topology", "self-loops")
    /\ val_pc' = "distributions"
    /\ UNCHANGED <<dataset, totals, builder_vars, geo_vars, reg_vars>>

\* node type and edge type distributions: two results, always PASS
Distributions ==
    /\ val_pc = "distributions"
    /\ results' = ok(ok(results, "6. Network Topology", "node types"),
                     "6. Network Topology", "edge types")
    /\ val_pc' = "feeder_tree"
    /\ UNCHANGED <<dataset, totals, builder_vars, geo_vars, reg_vars>>

\* nx.Graph() filled by G.add_edge(from_node_id, to_node_id) over the rows:
\* a simple graph, parallel rows fall into one edge
Graph(rows) ==
    [nodes |-> UNION {{rows[k].from_node_id, rows[k].to_node_id} : k \in DOMAIN rows},
     edges |-> {{rows[k].from_node_id, rows[k].to_node_id} : k \in DOMAIN rows}]

RECURSIVE Component(_, _)
\* the nodes reachable from R in graph G
Component(R, G) ==
    LET R2 == R \cup UNION {e \in G.edges : e \cap R # {}}
    IN  IF R2 = R THEN R ELSE Component(R2, G)

is_connected(G) ==
    LET v0 == CHOOSE v \in G.nodes : TRUE IN Component({v0}, G) = G.nodes

\* nx.is_tree(G) on a graph with at least one node
is_tree(G) ==
    Cardinality(G.nodes) - 1 = Cardinality(G.edges) /\ is_connected(G)

non_tie == SelectSeq(dataset.network_edges, LAMBDA e : e.edge_type # "tie")
ties == SelectSeq(dataset.network_edges, LAMBDA e : e.edge_type = "tie")

\* Category 6: feeder tree topology (excluding ties)
FeederTree ==
    /\ val_pc = "feeder_tree"
    /\ LET feeder_ids_in_edges == Values(Column(non_tie, "feeder_id"))
           tree_fail_list ==
               {fid \in feeder_ids_in_edges :
                   ~is_tree(Graph(SelectSeq(non_tie, LAMBDA e : e.feeder_id = fid)))}
       IN  results' = IF tree_fail_list = {}
                      THEN ok(results, "6. Network Topology", "feeder tree topology")
                      ELSE fail(results, "6. Network Topology", "feeder tree topology")
    /\ val_pc' = "tie_pairing"
    /\ UNCHANGED <<dataset, totals, builder_vars, geo_vars, reg_vars>>

\* for i in range(0, len(ties) - 1, 2): tie_fdrs[i] == tie_fdrs[i + 1]
\* (k = i + 1 counts the rows from 1)
bad_pairs ==
    Cardinality({k \in 1 .. Len(ties) - 1 :
                    k % 2 = 1 /\ ties[k].feeder_id = ties[k + 1].feeder_id})

\* Category 6: tie switches connect different feeders; nothing is recorded
\* when the table holds no tie edge
TiePairing ==
    /\ val_pc = "tie_pairing"
    /\ results' =
          IF Len(ties) > 0
          THEN IF bad_pairs = 0
               THEN ok(results, "6. Network Topology", "tie switches")
               ELSE fail(results, "6. Network Topology", "tie switches")
          ELSE results
    /\ val_pc' = "weather"
    /\ UNCHANGED <<dataset, totals, builder_vars, geo_vars, reg_vars>>

RECURSIVE sort_values(_)
\* Series.sort_values()
sort_values(col) ==
    IF col = << >> THEN << >>
    ELSE LET m == CHOOSE k \in DOMAIN col : \A j \in DOMAIN col : col[k] <= col[j]
         IN  <<col[m]>> \o sort_values(SubSeq(col, 1, m - 1) \o SubSeq(col, m + 1, Len(col)))

\* Category 7: weather is hourly without gaps and without duplicates;
\* wx_ts.iloc[0] raises IndexError on an empty table
WeatherCompleteness ==
    /\ val_pc = "weather"
    /\ IF Len(dataset.weather_data) = 0
       THEN /\ val_pc' = "raised"
            /\ UNCHANGED results
       ELSE LET wx_ts == sort_values(dataset.weather_data)
                wx_gap_ok == \A k \in 1 .. Len(wx_ts) - 1 : wx_ts[k + 1] - wx_ts[k] = 1
                is_unique == Cardinality(Values(wx_ts)) = Len(wx_ts)
                r1 == IF wx_gap_ok
                      THEN ok(results, "7. Temporal Completeness", "weather gaps")
                      ELSE fail(results, "7. Temporal Completeness", "weather gaps")
            IN  /\ results' =
                      IF is_unique
                      THEN ok(r1, "7. Temporal Completeness", "weather duplicates")
                      ELSE fail(r1, "7. Temporal Completeness", "weather duplicates")
                /\ val_pc' = "summary"
    /\ UNCHANGED <<dataset, totals, builder_vars, geo_vars, reg_vars>>

CountStatus(status) == Cardinality({k \in DOMAIN results : results[k].status = status})

\* Report.summary
Summary ==
    /\ val_pc = "summary"
    /\ totals' = [PASS |-> CountStatus("PASS"), FAIL |-> CountStatus("FAIL"),
                  WARN |-> CountStatus("WARN")]
    /\ val_pc' = "summarized"
    /\ UNCHANGED <<dataset, results, builder_vars, geo_vars, reg_vars>>

ValNext ==
    \/ RowCounts
    \/ ReferentialIntegrity
    \/ CrossTableCounts
    \/ SelfLoops
    \/ Distributions
    \/ FeederTree
    \/ TiePairing
    \/ WeatherCompleteness
    \/ Summary

ValSpec == ValInit /\ [][ValNext]_vars

\* ------------------------------------------------- the node registry
\* add_node on its own: any sequence of up to MaxOffers calls, with rows
\* that repeat ids (a substation listed twice, a feeder listed twice with
\* another tail)
OfferRows ==
    {NodeRow(SubNodeId(s), "substation_bus", s, NoFeeder, lat, 0, 6900,
             "substation", 40, "MVA", "ABC", "active") :
         s \in {1, 2}, lat \in {0, MILE_LAT}}
    \cup {NodeRow(TailId(1), "feeder_endpoint", 1, 1, lat, MILE_LON, 1247,
                  "open_point", 0, "", "ABC", "open") : lat \in {0, MILE_LAT}}

RegInit ==
    /\ BuilderIdle
    /\ GeoIdle
    /\ ValIdle
    /\ RegIdle

\* one call add_node(row)
Offer ==
    /\ pc = "idle"
    /\ Len(offered) < MaxOffers
    /\ \E row \in OfferRows :
          LET st == add_node(NodeState, row)
          IN  /\ nodes' = st.nodes
              /\ node_set' = st.node_set
              /\ offered' = Append(offered, row)
    /\ UNCHANGED <<inputs, geo_vars, val_vars, rng, edges, edge_num, pc, i, idx,
                   xfmrs_sorted, trunk_nodes, tie_i, tie_j, tie_num, run,
                   first_nodes, first_edges>>

RegNext == Offer

RegSpec == RegInit /\ [][RegNext]_vars

\* =================================================================
\* Properties
\* =================================================================
FeederIds == {feeders[k].feeder_id : k \in DOMAIN feeders}
SubIds == {substations[k].substation_id : k \in DOMAIN substations}
NodeIds == {nodes[k].node_id : k \in DOMAIN nodes}

\* indices of the non-tie edges carrying feeder id f
NonTie(f) ==
    {k \in DOMAIN edges : edges[k].feeder_id = f /\ edges[k].edge_type # "tie"}

\* endpoint nodes of a set of edge indices
Ends(E) ==
    {edges[k].from_node_id : k \in E} \cup {edges[k].to_node_id : k \in E}

RECURSIVE Grow(_, _)
\* nodes reachable from R along the (undirected) edges E
Grow(R, E) ==
    LET R2 == R \cup {edges[k].to_node_id : k \in {m \in E : edges[m].from_node_id \in R}}
                \cup {edges[k].from_node_id : k \in {m \in E : edges[m].to_node_id \in R}}
    IN  IF R2 = R THEN R ELSE Grow(R2, E)

Connected(E) ==
    E # {} /\ LET v0 == CHOOSE v \in Ends(E) : TRUE IN Grow({v0}, E) = Ends(E)

Degree(v, E) ==
    Cardinality({k \in E : edges[k].from_node_id = v})
    + Cardinality({k \in E : edges[k].to_node_id = v})

RECURSIVE Peel(_)
\* remove edges hanging on a node of degree one until none is left to remove
Peel(E) ==
    LET leaf == {k \in E : Degree(edges[k].from_node_id, E) = 1
                           \/ Degree(edges[k].to_node_id, E) = 1}
    IN  IF leaf = {} THEN E ELSE Peel(E \ leaf)

Acyclic(E) == Peel(E) = {}

IsTree(E) ==
    /\ Connected(E)
    /\ Acyclic(E)
    /\ Cardinality(E) = Cardinality(Ends(E)) - 1

IsTrunkType(t) == t \in {"primary_overhead", "primary_underground"}
IsLateralType(t) == t \in {"lateral_overhead", "lateral_underground"}

\* C1: after the builder has run, for every feeder id the non-tie edges
\* carrying it form a tree: connected, without cycle, and with one edge less
\* than distinct endpoint nodes.
C1_FeederTree ==
    pc = "done" => \A f \in FeederIds : IsTree(NonTie(f))

\* a finished run with a feeder of at least 16 transformers (junction every
\* second transformer)
C1_Witness ==
    /\ pc = "done"
    /\ \E f \in FeederIds : Cardinality(NonTie(f)) >= 42

\* C2: no emitted edge, of any type, has from_node_id equal to to_node_id.
C2_NoSelfLoop ==
    \A k \in DOMAIN edges : edges[k].from_node_id # edges[k].to_node_id

\* a finished run that emitted bus tie, trunk, lateral and tie edges
C2_Witness ==
    /\ pc = "done"
    /\ \E k \in DOMAIN edges : edges[k].edge_type = "bus_tie"
    /\ \E k \in DOMAIN edges : IsTrunkType(edges[k].edge_type)
    /\ \E k \in DOMAIN edges : IsLateralType(edges[k].edge_type)
    /\ \E k \in DOMAIN edges : edges[k].edge_type = "tie"

\* the foreign keys of the input tables resolve
ForeignKeysValid ==
    /\ \A k \in DOMAIN feeders : feeders[k].substation_id \in SubIds
    /\ \A k \in DOMAIN transformers : transformers[k].feeder_id \in FeederIds

\* C3: with valid foreign keys in the input, every from_node_id and
\* to_node_id of an emitted edge is the node_id of an emitted node row, and
\* every edge's feeder_id and substation_id name an existing feeder and
\* substation.
C3_ReferentialClosure ==
    (pc = "done" /\ ForeignKeysValid) =>
        \A k \in DOMAIN edges :
            /\ edges[k].from_node_id \in NodeIds
            /\ edges[k].to_node_id \in NodeIds
            /\ edges[k].feeder_id \in FeederIds
            /\ edges[k].substation_id \in SubIds

\* a finished run with two feeders of different substations, a tie switch
\* and a lateral
C3_Witness ==
    /\ pc = "done"
    /\ ForeignKeysValid
    /\ Len(feeders) = 2
    /\ feeders[1].substation_id # feeders[2].substation_id
    /\ \E k \in DOMAIN edges : edges[k].edge_type = "tie"
    /\ \E k \in DOMAIN edges : IsLateralType(edges[k].edge_type)

TieSwitchIds ==
    {nodes[k].node_id : k \in {m \in DOMAIN nodes : nodes[m].node_type = "tie_switch"}}

\* indices of the tie edges incident to node t
IncidentTies(t) ==
    {k \in DOMAIN edges :
        /\ edges[k].edge_type = "tie"
        /\ (edges[k].from_node_id = t \/ edges[k].to_node_id = t)}

\* voltage_kv of the feeder row with id f
FeederVoltage(f) ==
    feeders[CHOOSE k \in DOMAIN feeders : feeders[k].feeder_id = f].voltage_kv

\* C4: every tie switch node has exactly two incident tie edges; the two
\* carry different feeder ids and equal nominal_voltage_kv, and the feeders
\* they name have equal nominal voltage (no tie between voltages that differ).
C4_TieValidity ==
    \A t \in TieSwitchIds :
        /\ Cardinality(IncidentTies(t)) = 2
        /\ \A a, b \in IncidentTies(t) :
              a # b =>
                /\ edges[a].feeder_id # edges[b].feeder_id
                /\ edges[a].nominal_voltage_kv = edges[b].nominal_voltage_kv
                /\ FeederVoltage(edges[a].feeder_id) = FeederVoltage(edges[b].feeder_id)

\* a finished run with a tie switch between feeders of two substations
C4_Witness ==
    /\ pc = "done"
    /\ \E t \in TieSwitchIds :
          \E a, b \in IncidentTies(t) : edges[a].substation_id # edges[b].substation_id

\* tie switches joining the tail of feeder a to the tail of feeder b
TiesOfPair(a, b) ==
    {t \in TieSwitchIds :
        /\ \E k \in IncidentTies(t) :
              /\ edges[k].from_node_id = TailId(a)
              /\ edges[k].to_node_id = t
              /\ edges[k].feeder_id = a
        /\ \E k \in IncidentTies(t) :
              /\ edges[k].from_node_id = t
              /\ edges[k].to_node_id = TailId(b)
              /\ edges[k].feeder_id = b}

\* tie edges of the tie switches of the pair
TieEdgesOfPair(a, b) == UNION {IncidentTies(t) : t \in TiesOfPair(a, b)}

\* pairs of feeder rows i < j of equal nominal voltage
SameVoltagePairs ==
    {p \in (DOMAIN feeders) \X (DOMAIN feeders) :
        p[1] < p[2] /\ feeders[p[1]].voltage_kv = feeders[p[2]].voltage_kv}

PairHasOneTie(p) ==
    /\ Cardinality(TiesOfPair(feeders[p[1]].feeder_id, feeders[p[2]].feeder_id)) = 1
    /\ Cardinality(TieEdgesOfPair(feeders[p[1]].feeder_id, feeders[p[2]].feeder_id)) = 2

PairHasNoTie(p) ==
    /\ TiesOfPair(feeders[p[1]].feeder_id, feeders[p[2]].feeder_id) = {}
    /\ ~ \E k \in DOMAIN edges :
          /\ edges[k].edge_type = "tie"
          /\ edges[k].from_node_id = TailId(feeders[p[1]].feeder_id)
          /\ \E m \in DOMAIN edges :
                /\ edges[m].edge_type = "tie"
                /\ edges[m].from_node_id = edges[k].to_node_id
                /\ edges[m].to_node_id = TailId(feeders[p[2]].feeder_id)

\* C5 as claimed: a same-voltage pair gets one tie switch and two tie edges
\* when its tails are less than 1.5 miles apart, and none otherwise.
C5_Original ==
    pc = "done" =>
        \A p \in SameVoltagePairs :
            IF TailDist2(feeders[p[1]], feeders[p[2]]) < 225
            THEN PairHasOneTie(p) ELSE PairHasNoTie(p)

\* C5 amended: a same-voltage pair gets exactly one tie switch and two tie
\* edges when its tails are at most 1.5 miles apart, and no tie switch and no
\* tie edge when they are more than 1.5 miles apart.
C5_TieThreshold ==
    pc = "done" =>
        \A p \in SameVoltagePairs :
            IF TailDist2(feeders[p[1]], feeders[p[2]]) <= 225
            THEN PairHasOneTie(p) ELSE PairHasNoTie(p)

\* a finished run with a same-voltage pair exactly 1.5 miles apart, tied
C5_Witness ==
    /\ pc = "done"
    /\ \E p \in SameVoltagePairs :
          /\ TailDist2(feeders[p[1]], feeders[p[2]]) = 225
          /\ PairHasOneTie(p)

\* number of transformer rows of feeder f
XfmrCount(f) ==
    Cardinality({k \in DOMAIN transformers : transformers[k].feeder_id = f})

\* node rows of feeder f with the given type
NodesOf(f, type) ==
    {k \in DOMAIN nodes : nodes[k].feeder_id = f /\ nodes[k].node_type = type}

\* C6 as claimed: a feeder without transformers yields exactly two nodes
\* carrying its feeder id, the breaker and the endpoint, and exactly one
\* non-tie edge, the bus tie from the substation bus to the breaker.
C6_MinimalFeeder ==
    pc = "done" =>
        \A k \in DOMAIN feeders :
            XfmrCount(feeders[k].feeder_id) = 0 =>
                LET f == feeders[k].feeder_id IN
                /\ {nodes[m].node_id : m \in {x \in DOMAIN nodes : nodes[x].feeder_id = f}}
                      = {HeadId(f), TailId(f)}
                /\ Cardinality({m \in DOMAIN nodes : nodes[m].feeder_id = f}) = 2
                /\ Cardinality(NonTie(f)) = 1
                /\ \A e \in NonTie(f) :
                      /\ edges[e].edge_type = "bus_tie"
                      /\ edges[e].from_node_id = SubNodeId(feeders[k].substation_id)
                      /\ edges[e].to_node_id = HeadId(f)

\* junction count claimed for n >= 1 transformers: ceil(n / max(1, n div 8))
ClaimedJunctions(n) ==
    LET k == IF n \div 8 >= 1 THEN n \div 8 ELSE 1
    IN  (n + k - 1) \div k

\* C7: a feeder with n >= 1 transformers gets J = ceil(n / max(1, n div 8))
\* junction nodes, n fuse nodes, n transformer nodes and 2 + J + 2n non-tie
\* edges: one bus tie, J trunk edges ending at junctions, 2n lateral edges
\* and one closing trunk edge to the endpoint.
C7_FeederCounts ==
    pc = "done" =>
        \A f \in FeederIds :
            XfmrCount(f) >= 1 =>
                LET n == XfmrCount(f)
                    J == ClaimedJunctions(n)
                    E == NonTie(f)
                    junctions == {nodes[m].node_id : m \in NodesOf(f, "junction")}
                IN  /\ Cardinality(NodesOf(f, "junction")) = J
                    /\ Cardinality(NodesOf(f, "protective_device")) = n
                    /\ Cardinality(NodesOf(f, "transformer")) = n
                    /\ Cardinality(E) = 2 + J + 2 * n
                    /\ Cardinality({e \in E : edges[e].edge_type = "bus_tie"}) = 1
                    /\ Cardinality({e \in E : /\ IsTrunkType(edges[e].edge_type)
                                              /\ edges[e].to_node_id \in junctions}) = J
                    /\ Cardinality({e \in E : IsLateralType(edges[e].edge_type)}) = 2 * n
                    /\ Cardinality({e \in E : /\ IsTrunkType(edges[e].edge_type)
                                              /\ edges[e].to_node_id = TailId(f)}) = 1

\* a finished run with a feeder of 17 or more transformers (junction every
\* second transformer, the last junction serving a single transformer)
C7_Witness ==
    /\ pc = "done"
    /\ \E f \in FeederIds :
          /\ XfmrCount(f) >= 17
          /\ Cardinality(NodesOf(f, "junction")) = ClaimedJunctions(XfmrCount(f))

\* C8 as claimed: for every emitted edge length_ft differs from
\* length_miles * 5280 by less than 1.0 ft.
C8_LengthConsistency ==
    \A k \in DOMAIN edges :
        Abs(edges[k].length_ft * 10 - edges[k].length_miles * 528) < 100

\* C9 as claimed: every emitted edge has a strictly positive length_miles.
C9_PositiveLength ==
    \A k \in DOMAIN edges : edges[k].length_miles > 0

NodeTypeOf(id) ==
    LET k == CHOOSE m \in DOMAIN nodes : nodes[m].node_id = id
    IN  nodes[k].node_type

\* C12: an emitted edge has status open exactly when it is the closing trunk
\* edge into a feeder_endpoint node or an edge of type tie; bus tie edges,
\* trunk edges ending at a junction and lateral edges are closed.
C12_OpenEdges ==
    \A k \in DOMAIN edges :
        LET e == edges[k] IN
        /\ e.status \in {"open", "closed"}
        /\ e.status = "open" <=>
              \/ e.edge_type = "tie"
              \/ /\ IsTrunkType(e.edge_type)
                 /\ NodeTypeOf(e.to_node_id) = "feeder_endpoint"

\* a finished run that emitted an open closing trunk edge, an open tie edge
\* and closed bus tie, trunk and lateral edges
C12_Witness ==
    /\ pc = "done"
    /\ \E k \in DOMAIN edges :
          /\ IsTrunkType(edges[k].edge_type)
          /\ NodeTypeOf(edges[k].to_node_id) = "feeder_endpoint"
          /\ edges[k].status = "open"
    /\ \E k \in DOMAIN edges : edges[k].edge_type = "tie" /\ edges[k].status = "open"
    /\ \E k \in DOMAIN edges :
          /\ IsTrunkType(edges[k].edge_type)
          /\ NodeTypeOf(edges[k].to_node_id) = "junction"
          /\ edges[k].status = "closed"
    /\ \E k \in DOMAIN edges :
          IsLateralType(edges[k].edge_type) /\ edges[k].status = "closed"

\* C13 as claimed: the feeder_id of a node row is empty exactly for
\* substation_bus and tie_switch nodes; every other node carries the id of an
\* existing feeder.
C13_FeederIdEmpty ==
    \A k \in DOMAIN nodes :
        /\ nodes[k].feeder_id = NoFeeder
              <=> nodes[k].node_type \in {"substation_bus", "tie_switch"}
        /\ nodes[k].feeder_id # NoFeeder => nodes[k].feeder_id \in FeederIds

\* C19 as claimed: no feeder gets more than 8 junction nodes.
C19_Original ==
    \A f \in FeederIds : Cardinality(NodesOf(f, "junction")) <= 8

\* C19: a feeder never gets more than 15 junction nodes; a feeder of at most
\* 8 transformers gets one junction per transformer (so at most 8); a feeder
\* of more than 8 transformers, their number no multiple of 8, gets more
\* than 8 junctions.
C19_JunctionBound ==
    /\ \A f \in FeederIds : Cardinality(NodesOf(f, "junction")) <= 15
    /\ pc = "done" =>
          \A f \in FeederIds :
              LET n == XfmrCount(f)
                  J == Cardinality(NodesOf(f, "junction"))
              IN  /\ n <= 8 => J = n
                  /\ (n > 8 /\ n % 8 # 0) => J > 8

\* a finished run with a feeder of 15 transformers and 15 junctions
C19_Witness ==
    /\ pc = "done"
    /\ \E f \in FeederIds :
          XfmrCount(f) = 15 /\ Cardinality(NodesOf(f, "junction")) = 15

\* C20 as claimed: on every feeder each lateral edge has a lower rated_amps
\* than the feeder's trunk edges.
C20_LateralAmps ==
    \A k \in DOMAIN edges :
        \A m \in DOMAIN edges :
            ( /\ IsLateralType(edges[k].edge_type)
              /\ IsTrunkType(edges[m].edge_type)
              /\ edges[k].feeder_id = edges[m].feeder_id )
            => edges[k].rated_amps < edges[m].rated_amps

\* the validator's bounding box (check_coords)
LAT_MIN == 33200000
LAT_MAX == 33700000
LON_MIN == 0 - 112300000
LON_MAX == 0 - 111850000

InBox(lat, lon) == LAT_MIN <= lat /\ lat <= LAT_MAX /\ LON_MIN <= lon /\ lon <= LON_MAX

\* C11 as claimed: whatever substation, direction, length and jitter are
\* drawn, the substation, the feeder head and tail, the transformer and every
\* network node lie inside the validator's bounding box.
C11_InsideBox ==
    /\ geo_sub # << >> => InBox(geo_sub.latitude, geo_sub.longitude)
    /\ geo_fdr # << >> =>
          /\ InBox(geo_fdr.latitude_head, geo_fdr.longitude_head)
          /\ InBox(geo_fdr.latitude_tail, geo_fdr.longitude_tail)
    /\ geo_xfmr # << >> => InBox(geo_xfmr.latitude, geo_xfmr.longitude)
    /\ \A k \in DOMAIN geo_nodes : InBox(geo_nodes[k].latitude, geo_nodes[k].longitude)

\* C14 as claimed: on any loaded dataset, tables without rows included, the
\* validator never raises, and the PASS, FAIL and WARN counts of its summary
\* add up to the number of recorded results.
C14_NeverRaises ==
    /\ val_pc # "raised"
    /\ val_pc = "summarized" =>
          totals.PASS + totals.FAIL + totals.WARN = Len(results)

\* the checks of the validator that are followed, by category and name
ValChecks ==
    { <<"0. Row Counts", "feeders">>, <<"0. Row Counts", "network_nodes">>,
      <<"0. Row Counts", "network_edges">>, <<"0. Row Counts", "weather_data">>,
      <<"1. Referential Integrity", "edges.from_node_id -> nodes">>,
      <<"1. Referential Integrity", "edges.to_node_id -> nodes">>,
      <<"1. Referential Integrity", "edges.feeder_id -> feeders">>,
      <<"2. Cross-Table Counts", "feeders.num_customers vs actual">>,
      <<"6. Network Topology", "self-loops">>,
      <<"6. Network Topology", "node types">>,
      <<"6. Network Topology", "edge types">>,
      <<"6. Network Topology", "feeder tree topology">>,
      <<"6. Network Topology", "tie switches">>,
      <<"7. Temporal Completeness", "weather gaps">>,
      <<"7. Temporal Completeness", "weather duplicates">> }

ResultsOf(c) ==
    {k \in DOMAIN results : results[k].cat = c[1] /\ results[k].check = c[2]}

\* C15 as claimed: when the validator has run, each of its checks has recorded
\* exactly one result, PASS, FAIL or WARN; so has the tie pairing check when
\* the edges table holds no tie edge.
C15_OneResultPerCheck ==
    val_pc = "summarized" =>
        \A c \in ValChecks :
            /\ Cardinality(ResultsOf(c)) = 1
            /\ \A k \in ResultsOf(c) : results[k].status \in {"PASS", "FAIL", "WARN"}

\* statuses recorded by the check of the given name
StatusOf(check) == {results[k].status : k \in {m \in DOMAIN results : results[m].check = check}}

\* the non-tie rows of feeder fid are connected and one less than their
\* distinct endpoint nodes
RowsAreTree(fid) ==
    LET rows == SelectSeq(non_tie, LAMBDA e : e.feeder_id = fid)
        ends == UNION {{rows[k].from_node_id, rows[k].to_node_id} : k \in DOMAIN rows}
    IN  /\ Len(rows) = Cardinality(ends) - 1
        /\ Component({rows[1].from_node_id}, Graph(rows)) = ends

\* C16 as claimed: the feeder tree check records FAIL whenever the non-tie
\* edges of some feeder are not connected or their number differs from the
\* number of distinct endpoint nodes minus one, and records PASS only when
\* every feeder's non-tie edge set is a tree.
C16_TreeCheckSound ==
    StatusOf("feeder tree topology") # {} =>
        LET all_trees == \A fid \in Values(Column(non_tie, "feeder_id")) : RowsAreTree(fid)
        IN  /\ ~all_trees => StatusOf("feeder tree topology") = {"FAIL"}
            /\ StatusOf("feeder tree topology") = {"PASS"} => all_trees

TieSwitchNodes ==
    {dataset.network_nodes[k].node_id :
        k \in {m \in DOMAIN dataset.network_nodes :
                  dataset.network_nodes[m].node_type = "tie_switch"}}

\* pairs of different tie rows incident to the same tie switch node
TiePairs ==
    {p \in (DOMAIN ties) \X (DOMAIN ties) :
        /\ p[1] < p[2]
        /\ \E sw \in TieSwitchNodes :
              /\ sw \in {ties[p[1]].from_node_id, ties[p[1]].to_node_id}
              /\ sw \in {ties[p[2]].from_node_id, ties[p[2]].to_node_id}}

\* C17 as claimed: the tie check records FAIL exactly when some tie switch
\* node has two incident tie edges carrying the same feeder_id, in whatever
\* order the rows are and whatever their number.
C17_TieCheckExact ==
    val_pc \in {"weather", "summary", "summarized"} =>
        ( "FAIL" \in StatusOf("tie switches")
          <=> \E p \in TiePairs : ties[p[1]].feeder_id = ties[p[2]].feeder_id )

\* C18 as claimed: when the edges table holds a tie switch whose two tie edges
\* differ in nominal_voltage_kv, the validator records at least one FAIL.
C18_VoltageMismatchFails ==
    ( /\ val_pc = "summarized"
      /\ \E p \in TiePairs :
            ties[p[1]].nominal_voltage_kv # ties[p[2]].nominal_voltage_kv )
    => \E k \in DOMAIN results : results[k].status = "FAIL"

\* feeders whose conductor_type is no key of the conductor table
UnknownConductorFeeders ==
    {k \in DOMAIN feeders : feeders[k].conductor_type \notin ConductorNames}

FeederOf(f) == feeders[CHOOSE k \in DOMAIN feeders : feeders[k].feeder_id = f]

\* nodes created for entities of the input tables sit at their points
PointsCopied ==
    \A k \in DOMAIN nodes :
        LET nd == nodes[k] IN
        /\ nd.node_type = "feeder_breaker" =>
              LET fr == FeederOf(nd.feeder_id)
                  sb == substations[CHOOSE m \in DOMAIN substations :
                                       substations[m].substation_id = fr.substation_id]
              IN  /\ nd.latitude = fr.latitude_head /\ nd.longitude = fr.longitude_head
                  /\ nd.latitude = sb.latitude /\ nd.longitude = sb.longitude
        /\ nd.node_type = "feeder_endpoint" =>
              /\ nd.latitude = FeederOf(nd.feeder_id).latitude_tail
              /\ nd.longitude = FeederOf(nd.feeder_id).longitude_tail
        /\ nd.node_type = "transformer" =>
              \E m \in DOMAIN transformers :
                  /\ XfmrNodeId(transformers[m].transformer_id) = nd.node_id
                  /\ nd.latitude = transformers[m].latitude
                  /\ nd.longitude = transformers[m].longitude

\* C22: the builder never changes the substation, feeder and transformer
\* tables it was given (same rows, same order, same values), and the breaker,
\* endpoint and transformer nodes copy the points of their feeder head (the
\* substation's point), feeder tail and transformer.
C22_InputsReadOnly ==
    /\ [](PointsCopied)
    /\ [][/\ substations' = substations
          /\ feeders' = feeders
          /\ transformers' = transformers]_vars

\* a finished run whose transformers were visited in another order than the
\* table lists them, with their nodes in place
C22_Witness ==
    /\ pc = "done"
    /\ Len(transformers) >= 2
    /\ xfmrs_sorted # << >>
    /\ xfmrs_sorted # transformers
    /\ \E k \in DOMAIN nodes : nodes[k].node_type = "transformer"
    /\ \E k \in DOMAIN nodes : nodes[k].node_type = "feeder_endpoint"

\* C23: every node_id occurs in exactly one node row, every edge_id in exactly
\* one edge row, and the edge ids are numbered 1, 2, 3, ... without gaps in
\* emission order (EDGE-000001, EDGE-000002, ...).
C23_UniqueIds ==
    /\ \A k, m \in DOMAIN nodes : nodes[k].node_id = nodes[m].node_id => k = m
    /\ \A k, m \in DOMAIN edges : edges[k].edge_id = edges[m].edge_id => k = m
    /\ \A k \in DOMAIN edges : edges[k].edge_id = k

\* a finished run with two feeders, one of them with trunk and laterals, and
\* a tie switch
C23_Witness ==
    /\ pc = "done"
    /\ Len(feeders) >= 2
    /\ \E k \in DOMAIN edges : edges[k].edge_type = "tie" /\ edges[k].edge_id = Len(edges)
    /\ \E k \in DOMAIN edges : IsLateralType(edges[k].edge_type)
    /\ \E k \in DOMAIN nodes : nodes[k].node_type = "tie_switch"

\* trunk edges of feeder f in emission order
TrunkEdgesOf(f) ==
    SelectSeq(edges, LAMBDA e : e.feeder_id = f /\ IsTrunkType(e.edge_type))

\* feeders whose walk and closing segment are complete
FinishedFeeders ==
    {feeders[k].feeder_id : k \in {m \in DOMAIN feeders :
        pc \in {"ties", "done"} \/ (pc \in {"edges", "walk", "closing"} /\ m < i)}}

\* the trunk of a finished feeder with J junctions is the path
\* HEAD -> JCT-1 -> ... -> JCT-J -> TAIL, in creation order
TrunkIsPath(f) ==
    LET J == Cardinality(NodesOf(f, "junction"))
        te == TrunkEdgesOf(f)
        Stop(m) == IF m = 0 THEN HeadId(f)
                   ELSE IF m = J + 1 THEN TailId(f) ELSE <<"JCT", f, m>>
    IN  XfmrCount(f) >= 1 =>
            /\ J >= 1
            /\ \A m \in 1..J : \E k \in NodesOf(f, "junction") :
                   nodes[k].node_id = <<"JCT", f, m>>
            /\ Len(te) = J + 1
            /\ \A m \in 1..(J + 1) :
                   te[m].from_node_id = Stop(m - 1) /\ te[m].to_node_id = Stop(m)

\* C24: while a feeder's sorted transformers are visited, a junction is
\* created at sorted index idx exactly when idx mod k = 0 with
\* k = max(1, n div 8); the trunk edges of a finished feeder form one simple
\* path breaker -> junction 1 -> ... -> last junction -> endpoint in creation
\* order, so every junction has exactly one incoming trunk edge, from the
\* previous junction or from the breaker.
C24_TrunkPath ==
    /\ [](\A f \in FinishedFeeders :
            /\ TrunkIsPath(f)
            /\ \A k \in NodesOf(f, "junction") :
                 Cardinality({m \in DOMAIN edges :
                     /\ IsTrunkType(edges[m].edge_type)
                     /\ edges[m].to_node_id = nodes[k].node_id}) = 1)
    /\ [][pc = "walk" =>
            LET n == Len(xfmrs_sorted)
                k == IF n \div 8 >= 1 THEN n \div 8 ELSE 1
                f == feeders[i].feeder_id
                made == {m \in DOMAIN nodes' : nodes'[m].node_type = "junction"
                                               /\ nodes'[m].feeder_id = f}
            IN  /\ (Cardinality(made) = Cardinality(NodesOf(f, "junction")) + 1)
                       <=> (idx % k = 0)
                /\ Cardinality(made) = Cardinality(NodesOf(f, "junction"))
                       <=> (idx % k # 0)]_vars

\* a finished run with a feeder of 16 transformers: spacing 2, eight
\* junctions, nine trunk edges
C24_Witness ==
    /\ pc = "done"
    /\ \E f \in FeederIds :
          /\ XfmrCount(f) = 16
          /\ Cardinality(NodesOf(f, "junction")) = 8
          /\ Len(TrunkEdgesOf(f)) = 9

\* edges with node v as an end
Incident(v) ==
    {m \in DOMAIN edges : edges[m].from_node_id = v \/ edges[m].to_node_id = v}

\* transformer x of a finished feeder hangs on junction -> fuse -> transformer
Attached(x) ==
    LET f == x.feeder_id
        fu == FuseId(x.transformer_id)
        tr == XfmrNodeId(x.transformer_id)
        into == {m \in DOMAIN edges : edges[m].to_node_id = fu}
        out == {m \in DOMAIN edges : edges[m].from_node_id = fu}
    IN  /\ Cardinality(Incident(tr)) = 1
        /\ Cardinality(Incident(fu)) = 2
        /\ Cardinality(into) = 1
        /\ Cardinality(out) = 1
        /\ \A a \in into, b \in out :
              /\ b = a + 1
              /\ edges[b].to_node_id = tr
              /\ \E k \in NodesOf(f, "junction") :
                     nodes[k].node_id = edges[a].from_node_id
              /\ IsLateralType(edges[a].edge_type)
              /\ IsLateralType(edges[b].edge_type)
              /\ edges[a].edge_type = edges[b].edge_type
              /\ edges[a].conductor_type = edges[b].conductor_type
              /\ edges[a].phase = edges[b].phase
              /\ edges[a].is_overhead = edges[b].is_overhead
              /\ edges[a].status = "closed" /\ edges[b].status = "closed"

\* C25: every transformer of a feeder is attached by exactly two lateral
\* edges, junction -> FUSE-<transformer_id> -> transformer; the junction is
\* the newest junction of the feeder at the moment the transformer is visited
\* in sorted order (one always exists then); fuse and transformer node have
\* no other incident edge, and the two lateral edges agree in conductor type,
\* phase and overhead flag.
C25_LateralAttachment ==
    /\ [](\A k \in DOMAIN transformers :
             transformers[k].feeder_id \in FinishedFeeders
                 => Attached(transformers[k]))
    /\ [][pc = "walk" =>
            LET f == feeders[i].feeder_id
                x == xfmrs_sorted[idx + 1]
                made == {m \in DOMAIN nodes' : nodes'[m].node_type = "junction"
                                               /\ nodes'[m].feeder_id = f}
                a == edges'[Len(edges') - 1]
                b == edges'[Len(edges')]
            IN  /\ Cardinality(made) >= 1
                /\ a.from_node_id = <<"JCT", f, Cardinality(made)>>
                /\ a.to_node_id = FuseId(x.transformer_id)
                /\ b.from_node_id = FuseId(x.transformer_id)
                /\ b.to_node_id = XfmrNodeId(x.transformer_id)]_vars

\* a finished run with a feeder of 16 transformers where some junction
\* feeds two fuses and the laterals are not all of one conductor
C25_Witness ==
    /\ pc = "done"
    /\ \E f \in FeederIds :
          /\ XfmrCount(f) = 16
          /\ \E k \in NodesOf(f, "junction") :
                Cardinality({m \in DOMAIN edges :
                    /\ edges[m].from_node_id = nodes[k].node_id
                    /\ IsLateralType(edges[m].edge_type)}) = 2
          /\ \E a, b \in DOMAIN edges :
                /\ edges[a].feeder_id = f /\ edges[b].feeder_id = f
                /\ IsLateralType(edges[a].edge_type)
                /\ IsLateralType(edges[b].edge_type)
                /\ edges[a].conductor_type # edges[b].conductor_type

\* C26: every feeder with at least 3 transformers has at least one junction
\* of equipment class recloser, whatever the transformer count n, the trunk
\* spacing max(1, n div 8) and the recloser interval max(1, n div 3).
C26_RecloserPerFeeder ==
    pc = "done" =>
        \A f \in FeederIds :
            XfmrCount(f) >= 3 =>
                \E k \in NodesOf(f, "junction") :
                    nodes[k].equipment_class = "recloser"

\* index of the first offer of the id of row r
FirstOffer(r) ==
    CHOOSE m \in DOMAIN offered :
        /\ offered[m].node_id = r.node_id
        /\ \A q \in 1 .. (m - 1) : offered[q].node_id # r.node_id

\* C27: after any sequence of add_node calls the nodes list holds exactly
\* one row per distinct node_id offered, that row is the first one offered
\* with the id (a later row with the same id is dropped and changes
\* nothing), and the rows stand in the order of their first offer.
C27_GetOrCreate ==
    pc = "idle" =>
        /\ {nodes[k].node_id : k \in DOMAIN nodes}
               = {offered[m].node_id : m \in DOMAIN offered}
        /\ node_set = {offered[m].node_id : m \in DOMAIN offered}
        /\ \A k, m \in DOMAIN nodes : nodes[k].node_id = nodes[m].node_id => k = m
        /\ \A k \in DOMAIN nodes : nodes[k] = offered[FirstOffer(nodes[k])]
        /\ \A k, m \in DOMAIN nodes :
               k < m => FirstOffer(nodes[k]) < FirstOffer(nodes[m])

\* an id offered a second time with another row, and a new id offered after
\* the repeat
C27_Witness ==
    /\ pc = "idle"
    /\ Len(offered) >= 3
    /\ Len(nodes) = 2
    /\ offered[2].node_id = offered[1].node_id
    /\ offered[2] # offered[1]
    /\ offered[3].node_id # offered[1].node_id

\* edges in normal operation
ClosedEdges == {k \in DOMAIN edges : edges[k].status = "closed"}

\* ids of the substation_bus nodes connected to node v by closed edges
BusesOf(v) ==
    {nodes[k].node_id : k \in {m \in DOMAIN nodes :
        /\ nodes[m].node_type = "substation_bus"
        /\ v \in Grow({nodes[m].node_id}, ClosedEdges)}}

\* C28: over the closed edges only, every transformer node is connected to
\* exactly one substation_bus node, the bus of its own substation_id, and no
\* feeder_endpoint and no tie_switch node is connected to any substation bus.
C28_RadialWhenClosed ==
    pc = "done" =>
        \A k \in DOMAIN nodes :
            /\ nodes[k].node_type = "transformer"
                   => BusesOf(nodes[k].node_id)
                          = {<<"SUB", nodes[k].substation_id, 0>>}
            /\ nodes[k].node_type \in {"feeder_endpoint", "tie_switch"}
                   => BusesOf(nodes[k].node_id) = {}

\* a finished run with two feeders joined by a tie switch, one of them with
\* a transformer, under two substation buses
C28_Witness ==
    /\ pc = "done"
    /\ Cardinality({k \in DOMAIN nodes : nodes[k].node_type = "substation_bus"}) = 2
    /\ \E k \in DOMAIN nodes : nodes[k].node_type = "tie_switch"
    /\ \E k \in DOMAIN nodes : nodes[k].node_type = "transformer"
    /\ \E k \in DOMAIN edges : edges[k].edge_type = "tie" /\ edges[k].status = "open"
    /\ \E k \in DOMAIN edges : IsTrunkType(edges[k].edge_type) /\ edges[k].status = "open"

\* C29: for every feeder, also one without transformers, every node that
\* carries its feeder_id (breaker, junctions, fuses, transformers, endpoint)
\* is reachable from the feeder's substation bus over non-tie edges, so a tie
\* edge always attaches to an endpoint that is connected to its feeder.
C29_FeederReachable ==
    pc = "done" =>
        \A f \in DOMAIN feeders :
            LET fed == Grow({<<"SUB", feeders[f].substation_id, 0>>},
                            {k \in DOMAIN edges : edges[k].edge_type # "tie"})
            IN  \A k \in DOMAIN nodes :
                    (/\ nodes[k].feeder_id = feeders[f].feeder_id
                     /\ nodes[k].node_type \in
                            {"feeder_breaker", "junction", "protective_device",
                             "transformer", "feeder_endpoint"})
                        => nodes[k].node_id \in fed

\* the followed tables satisfy every invariant the validator is to assert:
\* keys resolve, stated customer counts are the actual ones, no self-loop,
\* every feeder's non-tie edges are a tree, every tie switch in use joins
\* two different feeders of one voltage, and the weather hours are complete
ValidDataset ==
    LET node_ids == Values(Column(dataset.network_nodes, "node_id"))
        fdr_ids == Values(Column(dataset.feeders, "feeder_id"))
        et == dataset.network_edges
        hours == Values(dataset.weather_data)
        TiesAt(sw) == {k \in DOMAIN ties :
                          sw \in {ties[k].from_node_id, ties[k].to_node_id}}
    IN  /\ Len(dataset.feeders) > 0
        /\ Len(dataset.weather_data) > 0
        /\ \A k \in DOMAIN et :
              /\ et[k].from_node_id \in node_ids
              /\ et[k].to_node_id \in node_ids
              /\ et[k].feeder_id \in fdr_ids
              /\ et[k].from_node_id # et[k].to_node_id
        /\ \A k \in DOMAIN dataset.customers : dataset.customers[k] \in fdr_ids
        /\ \A k \in DOMAIN dataset.feeders :
              dataset.feeders[k].num_customers
                  = ActualCustomers(dataset.feeders[k].feeder_id)
        /\ \A fid \in Values(Column(non_tie, "feeder_id")) : RowsAreTree(fid)
        /\ \A k \in DOMAIN ties :
              \E sw \in TieSwitchNodes : k \in TiesAt(sw)
        /\ \A sw \in TieSwitchNodes :
              TiesAt(sw) # {} =>
                  /\ Cardinality(TiesAt(sw)) = 2
                  /\ \A a, b \in TiesAt(sw) :
                        a # b => /\ ties[a].feeder_id # ties[b].feeder_id
                                 /\ ties[a].nominal_voltage_kv
                                        = ties[b].nominal_voltage_kv
        /\ Cardinality(hours) = Len(dataset.weather_data)
        /\ \A h \in hours : h = 0 \/ (h - 1) \in hours

\* C30: for a dataset that satisfies every invariant the validator records
\* no FAIL result, whatever the number of rows of its tables.
C30_ValidDatasetPasses ==
    (val_pc = "summarized" /\ ValidDataset) =>
        /\ \A k \in DOMAIN results : results[k].status # "FAIL"
        /\ totals.FAIL = 0

====
